---- MODULE Spec2Model ----
(***************************************************************************)
(* aptg: a caching, policy-enforcing reverse proxy in front of a Debian    *)
(* archive.  The module models the request handler of server/router.rs     *)
(* together with the collaborators it calls: the path parser, the archive  *)
(* policy engine, the cache, the upstream fetcher, the signature verifier, *)
(* the geo-policy engine and the audit logger.                             *)
(*                                                                         *)
(* Strings are TLA+ strings; Option<T> is a sequence of length 0 (None) or *)
(* 1 (Some).  Durations and instants are whole seconds.                    *)
(***************************************************************************)
EXTENDS Integers, Sequences, FiniteSets, TLC

None == <<>>
Some(x) == <<x>>
IsSome(o) == Len(o) = 1
IsNone(o) == Len(o) = 0

(***************************************************************************)
(* str methods used by the source                                          *)
(***************************************************************************)
StartsWith(s, p) == Len(s) >= Len(p) /\ SubSeq(s, 1, Len(p)) = p

EndsWith(s, p) == Len(s) >= Len(p) /\ SubSeq(s, Len(s) - Len(p) + 1, Len(s)) = p

Contains(s, p) == \E i \in 1..(Len(s) - Len(p) + 1) : SubSeq(s, i, i + Len(p) - 1) = p

\* str::split(c): the pieces between the occurrences of the one-character
\* separator c, empty pieces included; never an empty sequence.
RECURSIVE SplitFrom(_, _, _, _)
SplitFrom(s, c, i, start) ==
    IF i > Len(s) THEN <<SubSeq(s, start, Len(s))>>
    ELSE IF SubSeq(s, i, i) = c
         THEN <<SubSeq(s, start, i - 1)>> \o SplitFrom(s, c, i + 1, i + 1)
         ELSE SplitFrom(s, c, i + 1, start)

Split(s, c) == SplitFrom(s, c, 1, 1)

\* Iterator::filter(|s| !s.is_empty())
RECURSIVE FilterNonEmpty(_)
FilterNonEmpty(parts) ==
    IF parts = <<>> THEN <<>>
    ELSE IF Len(Head(parts)) = 0 THEN FilterNonEmpty(Tail(parts))
         ELSE <<Head(parts)>> \o FilterNonEmpty(Tail(parts))

\* str::trim_end_matches(c)
RECURSIVE TrimEndMatches(_, _)
TrimEndMatches(s, c) ==
    IF Len(s) > 0 /\ SubSeq(s, Len(s), Len(s)) = c
    THEN TrimEndMatches(SubSeq(s, 1, Len(s) - 1), c)
    ELSE s

RECURSIVE TrimStartMatches(_, _)
TrimStartMatches(s, c) ==
    IF Len(s) > 0 /\ SubSeq(s, 1, 1) = c
    THEN TrimStartMatches(SubSeq(s, 2, Len(s)), c)
    ELSE s

\* str::trim(), for the one white-space character the header values carry
Trim(s) == TrimStartMatches(TrimEndMatches(s, " "), " ")

Last(seq) == seq[Len(seq)]

(***************************************************************************)
(* mirror/path.rs: PathParser                                              *)
(***************************************************************************)
DebianPath(t, s, c, a, f) ==
    [ok |-> TRUE, path_type |-> t, suite |-> s, component |-> c,
     architecture |-> a, filename |-> f, error |-> ""]

PathErr(msg) ==
    [ok |-> FALSE, path_type |-> "", suite |-> "", component |-> None,
     architecture |-> None, filename |-> None, error |-> msg]

\* parts is 1-based here: parts[k + 1] is the source's parts[k].
parse_release_path_Arch3rd(path) ==
    LET parts == Split(path, "/")
        n == Len(parts)
    IN  IF n < 2 THEN PathErr("Invalid release path format")
        ELSE LET suite == parts[2] IN
             IF n = 2 THEN DebianPath("Release", suite, None, None, None)
             ELSE IF n = 3 THEN DebianPath("Release", suite, None, None, Some(parts[3]))
             ELSE IF n = 4 THEN DebianPath("Release", suite, Some(parts[3]), None, Some(parts[4]))
             ELSE DebianPath("Release", suite, Some(parts[3]), Some(parts[4]),
                             Some(Last(parts)))

parse_release_path(path) ==
    LET parts == Split(path, "/")
        n == Len(parts)
    IN  IF n < 2 THEN PathErr("Invalid release path format")
        ELSE LET suite == parts[2] IN
             IF n = 2 THEN DebianPath("Release", suite, None, None, None)
             ELSE IF n = 3 THEN DebianPath("Release", suite, None, None, Some(parts[3]))
             ELSE IF n = 4 THEN DebianPath("Release", suite, Some(parts[3]), None, Some(parts[4]))
             ELSE IF n = 5 THEN
                  IF EndsWith(parts[5], "/")
                  THEN DebianPath("Release", suite, Some(parts[3]),
                                  Some(TrimEndMatches(parts[4], "/")), None)
                  ELSE DebianPath("Release", suite, Some(parts[3]), Some(parts[4]),
                                  Some(parts[5]))
             ELSE DebianPath("Release", suite, Some(parts[3]), Some(parts[5]),
                             Some(Last(parts)))

parse_package_path(path) ==
    LET parts == FilterNonEmpty(Split(path, "/"))
    IN  IF Len(parts) < 4 THEN PathErr("Invalid package path format")
        ELSE DebianPath("Package", "", Some(parts[2]), None, Some(Last(parts)))

parse_debian_path(path) ==
    IF ~StartsWith(path, "/debian/") THEN PathErr("Invalid Debian path")
    ELSE LET remaining == SubSeq(path, 9, Len(path)) IN
         IF StartsWith(remaining, "dists/") THEN parse_release_path(remaining)
         ELSE IF StartsWith(remaining, "pool/") THEN parse_package_path(remaining)
         ELSE PathErr("Unknown Debian path type")

(***************************************************************************)
(* policy/rules.rs: PolicyEngine                                           *)
(***************************************************************************)
PolicyConfigDefault ==
    [allowed_suites |-> {"bookworm", "bullseye"},
     allowed_components |-> {"main", "contrib", "non-free"},
     allowed_architectures |-> {"amd64", "arm64", "binary-amd64"},
     denied_architectures |-> {"i386"},
     denied_packages |-> {},
     max_deb_size_mb |-> 500,
     max_request_rate_per_minute |-> 100]

\* Result<()>: ok, or the reason of the rejection
Allowed == [ok |-> TRUE, reason |-> ""]
Rejected(msg) == [ok |-> FALSE, reason |-> msg]

check_release_policy_ComponentRequired(cfg, p) ==
    IF p.suite \notin cfg.allowed_suites THEN Rejected("Suite is not allowed")
    ELSE IF IsNone(p.component) \/ p.component[1] \notin cfg.allowed_components
         THEN Rejected("Component is not allowed")
    ELSE IF IsSome(p.architecture) /\ p.architecture[1] \in cfg.denied_architectures
         THEN Rejected("Architecture is explicitly denied")
    ELSE IF IsSome(p.architecture) /\ p.architecture[1] \notin cfg.allowed_architectures
         THEN Rejected("Architecture is not allowed")
    ELSE Allowed

check_release_policy_IgnoresDenied(cfg, p) ==
    IF p.suite \notin cfg.allowed_suites THEN Rejected("Suite is not allowed")
    ELSE IF IsSome(p.component) /\ p.component[1] \notin cfg.allowed_components
         THEN Rejected("Component is not allowed")
    ELSE IF IsSome(p.architecture) /\ p.architecture[1] \notin cfg.allowed_architectures
         THEN Rejected("Architecture is not allowed")
    ELSE Allowed

check_release_policy(cfg, p) ==
    IF p.suite \notin cfg.allowed_suites THEN Rejected("Suite is not allowed")
    ELSE IF IsSome(p.component) /\ p.component[1] \notin cfg.allowed_components
         THEN Rejected("Component is not allowed")
    ELSE IF IsSome(p.architecture) /\ p.architecture[1] \in cfg.denied_architectures
         THEN Rejected("Architecture is explicitly denied")
    ELSE IF IsSome(p.architecture) /\ p.architecture[1] \notin cfg.allowed_architectures
         THEN Rejected("Architecture is not allowed")
    ELSE Allowed

extract_package_name_AnyFile(filename) == Some(Split(filename, "_")[1])

extract_package_name(filename) ==
    IF EndsWith(filename, ".deb") THEN Some(Split(filename, "_")[1]) ELSE None

check_package_policy_DeniesArch(cfg, p) ==
    IF IsSome(p.component) /\ p.component[1] \notin cfg.allowed_components
    THEN Rejected("Component is not allowed")
    ELSE IF /\ IsSome(p.filename)
            /\ IsSome(extract_package_name(p.filename[1]))
            /\ extract_package_name(p.filename[1])[1] \in cfg.denied_packages
         THEN Rejected("Package is explicitly denied")
    ELSE IF /\ IsSome(p.filename)
            /\ \E arch \in cfg.denied_architectures : EndsWith(p.filename[1], "_" \o arch \o ".deb")
         THEN Rejected("Architecture is explicitly denied")
    ELSE Allowed

check_package_policy(cfg, p) ==
    IF IsSome(p.component) /\ p.component[1] \notin cfg.allowed_components
    THEN Rejected("Component is not allowed")
    ELSE IF /\ IsSome(p.filename)
            /\ IsSome(extract_package_name(p.filename[1]))
            /\ extract_package_name(p.filename[1])[1] \in cfg.denied_packages
         THEN Rejected("Package is explicitly denied")
    ELSE Allowed

check_path(cfg, path) ==
    LET debian_path == parse_debian_path(path) IN
    IF ~debian_path.ok THEN Rejected("Invalid Debian path")
    ELSE IF debian_path.path_type = "Release" THEN check_release_policy(cfg, debian_path)
    ELSE check_package_policy(cfg, debian_path)

check_file_size_AtLimit(cfg, size_bytes) ==
    IF size_bytes \div (1024 * 1024) >= cfg.max_deb_size_mb
    THEN Rejected("File size exceeds maximum allowed size")
    ELSE Allowed

\* size_bytes: u64; the quotient of the unsigned division cannot overflow
check_file_size(cfg, size_bytes) ==
    IF size_bytes \div (1024 * 1024) > cfg.max_deb_size_mb
    THEN Rejected("File size exceeds maximum allowed size")
    ELSE Allowed

check_request_AnyMethod(cfg, path, method) == check_path(cfg, path).ok

check_request(cfg, path, method) ==
    IF method # "GET" /\ method # "HEAD" THEN FALSE
    ELSE check_path(cfg, path).ok

(***************************************************************************)
(* HTTP replies.  A body is either JSON with one key (warp::reply::json of *)
(* a one-entry object) or the raw bytes of an upstream answer.             *)
(***************************************************************************)
JsonBody(k, v) == [kind |-> "json", key |-> k, value |-> v]
BytesBody(b) == [kind |-> "bytes", key |-> "", value |-> b]

Response(status, headers, body) == [status |-> status, headers |-> headers, body |-> body]

\* warp::reply::with_status(warp::reply::json(..), status): the JSON reply sets
\* the content type and nothing else.
JsonReply(status, k, v) ==
    Response(status, {<<"content-type", "application/json">>}, JsonBody(k, v))

(***************************************************************************)
(* cache/cache.rs: CacheManager                                            *)
(***************************************************************************)
release_ttl == 6 * 3600
packages_ttl == 12 * 3600
deb_ttl == 365 * 24 * 3600

determine_ttl_DebFirst(path) ==
    IF EndsWith(path, ".deb") THEN deb_ttl
    ELSE IF Contains(path, "InRelease") \/ Contains(path, "Release")
            \/ Contains(path, "Release.gpg")
         THEN release_ttl
    ELSE IF Contains(path, "Packages") \/ Contains(path, "Sources") THEN packages_ttl
    ELSE 3600

determine_ttl(path) ==
    IF Contains(path, "InRelease") \/ Contains(path, "Release") \/ Contains(path, "Release.gpg")
    THEN release_ttl
    ELSE IF Contains(path, "Packages") \/ Contains(path, "Sources") THEN packages_ttl
    ELSE IF EndsWith(path, ".deb") THEN deb_ttl
    ELSE 3600

CacheEntry(data, created_at, ttl) == [data |-> data, created_at |-> created_at, ttl |-> ttl]

create_warp_response(cached) == Response(cached.status, cached.headers, cached.body)

\* CacheManager::new: an empty map
CacheNew == [p \in {} |-> CacheEntry(Response(0, {}, BytesBody("")), 0, 0)]

\* get(path) at instant t: Option<impl Reply>
cache_get_Inclusive(map, path, t) ==
    IF path \in DOMAIN map /\ t - map[path].created_at <= map[path].ttl
    THEN Some(create_warp_response(map[path].data))
    ELSE None

cache_get(map, path, t) ==
    IF path \in DOMAIN map /\ t - map[path].created_at < map[path].ttl
    THEN Some(create_warp_response(map[path].data))
    ELSE None

\* store(path, response) at instant t: computes the TTL, logs, inserts nothing.
cache_store(map, path, response, t) ==
    LET ttl == determine_ttl(path) IN map

\* clear(): the map after cache.clear()
clear(map) == [p \in {} |-> map[p]]

\* cleanup_expired() at instant t: the map after retain(is_valid)
cleanup_expired_Inclusive(map, t) ==
    [p \in {q \in DOMAIN map : t - map[q].created_at <= map[q].ttl} |-> map[p]]

cleanup_expired(map, t) ==
    [p \in {q \in DOMAIN map : t - map[q].created_at < map[q].ttl} |-> map[p]]

(***************************************************************************)
(* mirror/fetch.rs: MirrorFetcher                                          *)
(***************************************************************************)
upstream_base == "https://deb.debian.org"

is_success_Below500(status) == 200 <= status /\ status < 500

\* StatusCode::is_success
is_success(status) == 200 <= status /\ status < 300

FetchOk(response) == [ok |-> TRUE, response |-> response, error |-> ""]
FetchErr(msg) == [ok |-> FALSE, response |-> Response(0, {}, BytesBody("")), error |-> msg]

\* fetch(path) against an upstream that answers `reply`:
\* [sent: the request got an answer, status, headers, read: the body was read, body]
fetch(path, reply) ==
    IF ~reply.sent THEN FetchErr("error sending request")
    ELSE IF ~is_success(reply.status) THEN FetchErr("Upstream returned status")
    ELSE IF ~reply.read THEN FetchErr("error decoding response body")
    ELSE FetchOk(Response(reply.status, reply.headers, BytesBody(reply.body)))

(***************************************************************************)
(* verify/gpg.rs: GpgVerifier                                              *)
(***************************************************************************)
\* The byte strings gpg accepts under the configured keyring.
SignedMessages == {"signed InRelease"}

\* The gpg child process on the temporary file's content: exit status, stdout, stderr.
gpg_verify(data) ==
    IF data \in SignedMessages
    THEN [success |-> TRUE, stdout |-> <<"gpg: using RSA key 0E98404D386FA1D9,">>, stderr |-> ""]
    ELSE [success |-> FALSE, stdout |-> <<>>, stderr |-> "gpg: no valid OpenPGP data found."]

RECURSIVE ScanKeyId(_, _)
ScanKeyId(lines, key_id) ==
    IF lines = <<>> THEN key_id
    ELSE LET line == Head(lines)
             words == FilterNonEmpty(Split(line, " "))
         IN  IF Contains(line, "using RSA key") /\ Len(words) >= 3
             THEN ScanKeyId(Tail(lines), Some(TrimEndMatches(words[3], ",")))
             ELSE ScanKeyId(Tail(lines), key_id)

GpgResult(valid, key_id, trust, msg) ==
    [ok |-> TRUE, valid |-> valid, key_id |-> key_id, signature_date |-> "",
     trust_level |-> trust, error_message |-> msg, error |-> ""]
GpgErr(msg) ==
    [ok |-> FALSE, valid |-> FALSE, key_id |-> None, signature_date |-> "",
     trust_level |-> "", error_message |-> None, error |-> msg]

parse_gpg_output(output) ==
    IF output.success
    THEN GpgResult(TRUE, ScanKeyId(output.stdout, None), "ultimate", None)
    ELSE GpgResult(FALSE, None, "unknown",
                   Some(IF output.stderr = "" THEN "GPG verification failed" ELSE output.stderr))

\* The file system under /tmp with no temporary file of the verifier in it.
NoFiles == [f \in {} |-> [content |-> "", writer |-> 0]]

\* No call of the verifier in progress.
NoCalls ==
    [c \in {} |-> [fn |-> "", pc |-> "", data |-> "", sig |-> "", output |-> <<>>, result |-> <<>>]]

\* verify_inrelease(data) in an environment where writing the temporary file
\* and spawning gpg succeed (io = "ok") or fail.
verify_inrelease(data, io) ==
    IF io = "write_error" THEN GpgErr("cannot write /tmp/inrelease_temp")
    ELSE IF io = "spawn_error" THEN GpgErr("cannot run gpg")
    ELSE parse_gpg_output(gpg_verify(data))

(***************************************************************************)
(* geoip/location.rs: LocationInfo                                         *)
(***************************************************************************)
LocationInfoNew(ip, country_code, country_name) ==
    [ip_address |-> ip, country_code |-> country_code, country_name |-> country_name,
     city |-> None, region |-> None, postal_code |-> None, timezone |-> None,
     continent_code |-> "",
     asn |-> None, is_anonymous_proxy |-> FALSE, is_satellite_provider |-> FALSE]

with_city(location, city) == [location EXCEPT !.city = Some(city)]
with_region(location, region) == [location EXCEPT !.region = Some(region)]

get_country_grouping_HighRisk(location) ==
    LET cc == location.country_code IN
    IF cc \in {"PK", "KP"} THEN "high_risk"
    ELSE IF cc \in {"US", "CA", "MX"} THEN "north_america"
    ELSE IF cc \in {"GB", "DE", "FR", "IT", "ES", "NL", "BE", "AT", "CH", "SE", "NO",
                    "DK", "FI", "PL", "CZ", "HU", "GR", "PT", "IE"} THEN "europe"
    ELSE IF cc \in {"CN", "JP", "KR", "SG", "AU", "NZ", "IN", "TH", "MY", "ID", "PH"}
         THEN "asia_pacific"
    ELSE IF cc \in {"BR", "AR", "CL", "CO", "PE", "VE", "EC", "BO", "UY", "PY"}
         THEN "south_america"
    ELSE IF cc \in {"ZA", "EG", "NG", "KE", "MA", "TN", "GH"} THEN "africa"
    ELSE IF cc \in {"SA", "AE", "IL", "IR", "IQ", "JO", "LB", "SY", "TR"} THEN "middle_east"
    ELSE "other"

get_country_grouping(location) ==
    LET cc == location.country_code IN
    IF cc \in {"US", "CA", "MX"} THEN "north_america"
    ELSE IF cc \in {"GB", "DE", "FR", "IT", "ES", "NL", "BE", "AT", "CH", "SE", "NO",
                    "DK", "FI", "PL", "CZ", "HU", "GR", "PT", "IE"} THEN "europe"
    ELSE IF cc \in {"CN", "JP", "KR", "SG", "AU", "NZ", "IN", "TH", "MY", "ID", "PH"}
         THEN "asia_pacific"
    ELSE IF cc \in {"BR", "AR", "CL", "CO", "PE", "VE", "EC", "BO", "UY", "PY"}
         THEN "south_america"
    ELSE IF cc \in {"ZA", "EG", "NG", "KE", "MA", "TN", "GH"} THEN "africa"
    ELSE IF cc \in {"SA", "AE", "IL", "IR", "IQ", "JO", "LB", "SY", "TR"} THEN "middle_east"
    ELSE "other"

Min(a, b) == IF a < b THEN a ELSE b

\* u8 arithmetic of a release build: the result of += and -= modulo 2^8
U8(x) == x % 256

get_risk_score_ProxyAdds240(location) ==
    LET cc == location.country_code
        s1 == IF cc \in {"CN", "RU", "KP", "IR"} THEN U8(50 + 30)
              ELSE IF cc \in {"IN", "BR", "ID", "PK"} THEN U8(50 + 15)
              ELSE IF cc \in {"US", "CA", "GB", "DE", "FR", "JP", "AU"} THEN U8(50 - 10)
              ELSE 50
        s2 == IF location.is_anonymous_proxy THEN U8(s1 + 240) ELSE s1
        s3 == IF location.is_satellite_provider THEN U8(s2 + 20) ELSE s2
    IN  Min(s3, 100)

get_risk_score(location) ==
    LET cc == location.country_code
        s1 == IF cc \in {"CN", "RU", "KP", "IR"} THEN U8(50 + 30)
              ELSE IF cc \in {"IN", "BR", "ID", "PK"} THEN U8(50 + 15)
              ELSE IF cc \in {"US", "CA", "GB", "DE", "FR", "JP", "AU"} THEN U8(50 - 10)
              ELSE 50
        s2 == IF location.is_anonymous_proxy THEN U8(s1 + 40) ELSE s1
        s3 == IF location.is_satellite_provider THEN U8(s2 + 20) ELSE s2
    IN  Min(s3, 100)

with_timezone(location, timezone) == [location EXCEPT !.timezone = Some(timezone)]
with_anonymous_proxy(location, is_proxy) == [location EXCEPT !.is_anonymous_proxy = is_proxy]

\* The static table of get_timezone_offset: hours from UTC.
TimezoneOffsets ==
    [tz \in {"UTC", "Europe/London"} |-> 0]
    @@ [tz \in {"Europe/Paris", "Europe/Berlin", "Europe/Rome", "Europe/Spain",
                "Europe/Amsterdam", "Europe/Stockholm", "Europe/Warsaw"} |-> 1]
    @@ ("America/New_York" :> -5) @@ ("America/Chicago" :> -6) @@ ("America/Denver" :> -7)
    @@ ("America/Los_Angeles" :> -8) @@ ("America/Phoenix" :> -7)
    @@ ("America/Anchorage" :> -9) @@ ("Pacific/Auckland" :> 12)
    @@ ("Australia/Sydney" :> 10) @@ ("Asia/Tokyo" :> 9) @@ ("Asia/Shanghai" :> 8)
    @@ ("Asia/Singapore" :> 8) @@ ("Asia/Dubai" :> 4) @@ ("Asia/Kolkata" :> 5)

get_timezone_offset(location) ==
    IF IsSome(location.timezone) /\ location.timezone[1] \in DOMAIN TimezoneOffsets
    THEN Some(TimezoneOffsets[location.timezone[1]])
    ELSE None

\* The % of i32: the remainder has the sign of the dividend.
Rem(a, b) == IF a >= 0 THEN a % b ELSE 0 - ((0 - a) % b)

\* is_business_hours when Utc::now().hour() is utc_hour
is_business_hours(location, utc_hour) ==
    IF IsSome(get_timezone_offset(location))
    THEN LET local_hour == Rem(utc_hour + get_timezone_offset(location)[1], 24)
         IN  local_hour >= 9 /\ local_hour < 17
    ELSE FALSE

(***************************************************************************)
(* geoip/database.rs: GeoIpDatabase                                        *)
(***************************************************************************)
\* The strings std::net::IpAddr's parser accepts, among those the requests carry.
IpAddrs == {"203.0.113.1", "8.8.8.8", "10.0.0.1"}

\* The records of the loaded database file: address -> <<iso code, country name>>.
GeoRecords == ("203.0.113.1" :> <<"CN", "China">>) @@ ("8.8.8.8" :> <<"US", "United States">>)

LookupOk(location) == [ok |-> TRUE, location |-> location, error |-> ""]
LookupErr(msg) == [ok |-> FALSE, location |-> None, error |-> msg]

\* GeoIpDatabase::lookup: Result<Option<LocationInfo>>
lookup(ip_address) ==
    IF ip_address \notin IpAddrs THEN LookupErr("Invalid IP address")
    ELSE IF ip_address \in DOMAIN GeoRecords
         THEN LookupOk(Some(with_region(with_city(
                  LocationInfoNew(ip_address, GeoRecords[ip_address][1],
                                  GeoRecords[ip_address][2]), "Unknown"), "Unknown")))
         ELSE LookupOk(None)

(***************************************************************************)
(* geoip/policy.rs: GeoPolicyEngine                                        *)
(***************************************************************************)
GeoAllow == [type |-> "Allow", requests_per_minute |-> 0, url |-> ""]
GeoDeny == [type |-> "Deny", requests_per_minute |-> 0, url |-> ""]
GeoRateLimit(n) == [type |-> "RateLimit", requests_per_minute |-> n, url |-> ""]
GeoLogOnly == [type |-> "LogOnly", requests_per_minute |-> 0, url |-> ""]
GeoRedirect(url) == [type |-> "Redirect", requests_per_minute |-> 0, url |-> url]

GeoRule(name, condition, action, priority, enabled) ==
    [name |-> name, condition |-> condition, action |-> action,
     priority |-> priority, enabled |-> enabled]

\* GeoPolicy::default().rules
DefaultRules ==
    << GeoRule("Block high-risk countries",
               [type |-> "RiskScore", min |-> Some(80), max |-> None], GeoDeny, 100, TRUE),
       GeoRule("Rate limit suspicious regions",
               [type |-> "CountryGroup", groups |-> {"high_risk"}], GeoRateLimit(10), 90, TRUE) >>

GeoPolicy(enabled, rules, default_action) ==
    [enabled |-> enabled, database_path |-> "geoip/GeoLite2-City.mmdb", rules |-> rules,
     default_action |-> default_action, update_interval_hours |-> 24]

GeoPolicyDefault == GeoPolicy(FALSE, DefaultRules, GeoAllow)

\* GeoPolicyEngine::new(policy) when loading the database file succeeds (loaded)
\* or fails: the database is Some only for an enabled policy whose file loaded.
GeoPolicyEngineNew(policy, loaded) ==
    [database |-> IF policy.enabled /\ loaded THEN Some("db") ELSE None, policy |-> policy]

\* u8::to_string and str::parse::<f64>, on decimal integers
Digits == <<"0", "1", "2", "3", "4", "5", "6", "7", "8", "9">>

RECURSIVE to_string(_)
to_string(n) == IF n < 10 THEN Digits[n + 1] ELSE to_string(n \div 10) \o Digits[(n % 10) + 1]

IsDigit(ch) == \E d \in 1..10 : Digits[d] = ch
DigitValue(ch) == (CHOOSE d \in 1..10 : Digits[d] = ch) - 1

RECURSIVE ParseDigits(_, _)
ParseDigits(str, acc) ==
    IF Len(str) = 0 THEN Some(acc)
    ELSE IF ~IsDigit(SubSeq(str, 1, 1)) THEN None
    ELSE ParseDigits(SubSeq(str, 2, Len(str)), 10 * acc + DigitValue(SubSeq(str, 1, 1)))

\* Ok(v) as <<v>>, Err as <<>>: an optional sign, then one digit or more
ParseF64(str) ==
    LET signed == Len(str) > 0 /\ SubSeq(str, 1, 1) \in {"-", "+"}
        digits == IF signed THEN SubSeq(str, 2, Len(str)) ELSE str
    IN  IF Len(digits) = 0 \/ IsNone(ParseDigits(digits, 0)) THEN None
        ELSE IF signed /\ SubSeq(str, 1, 1) = "-" THEN Some(0 - ParseDigits(digits, 0)[1])
        ELSE ParseDigits(digits, 0)

unwrap_or(opt, default) == IF IsSome(opt) THEN opt[1] ELSE default

CustomFields ==
    {"country_code", "country_name", "city", "region", "postal_code", "timezone",
     "continent_code", "country_grouping", "risk_score"}

\* the match on field of evaluate_custom_field, for a field of CustomFields
custom_field_value(field, location) ==
    CASE field = "country_code" -> location.country_code
      [] field = "country_name" -> location.country_name
      [] field = "city" -> unwrap_or(location.city, "")
      [] field = "region" -> unwrap_or(location.region, "")
      [] field = "postal_code" -> unwrap_or(location.postal_code, "")
      [] field = "timezone" -> unwrap_or(location.timezone, "")
      [] field = "continent_code" -> location.continent_code
      [] field = "country_grouping" -> get_country_grouping(location)
      [] field = "risk_score" -> to_string(get_risk_score(location))

evaluate_custom_field(field, operator, value, location) ==
    IF field \notin CustomFields THEN FALSE
    ELSE LET field_value == custom_field_value(field, location)
             v == ParseF64(field_value)
             w == unwrap_or(ParseF64(value), 0)
         IN  CASE operator = "equals" -> field_value = value
               [] operator = "not_equals" -> field_value # value
               [] operator = "contains" -> Contains(field_value, value)
               [] operator = "starts_with" -> StartsWith(field_value, value)
               [] operator = "ends_with" -> EndsWith(field_value, value)
               [] operator = "gt" -> IsSome(v) /\ v[1] > w
               [] operator = "lt" -> IsSome(v) /\ v[1] < w
               [] operator = "ge" -> IsSome(v) /\ v[1] >= w
               [] operator = "le" -> IsSome(v) /\ v[1] <= w
               [] OTHER -> FALSE

evaluate_condition(condition, location) ==
    CASE condition.type = "CountryCode" -> location.country_code \in condition.codes
      [] condition.type = "Continent" -> location.continent_code \in condition.codes
      [] condition.type = "CountryGroup" -> get_country_grouping(location) \in condition.groups
      [] condition.type = "RiskScore" ->
            /\ (IsNone(condition.min) \/ get_risk_score(location) >= condition.min[1])
            /\ (IsNone(condition.max) \/ get_risk_score(location) <= condition.max[1])
      [] condition.type = "Timezone" ->
            IsSome(location.timezone) /\ location.timezone[1] \in condition.zones
      [] condition.type = "AnonymousProxy" -> condition.blocked = location.is_anonymous_proxy
      [] condition.type = "SatelliteProvider" ->
            condition.blocked = location.is_satellite_provider
      [] condition.type = "Asn" ->
            /\ IsSome(location.asn)
            /\ \E r \in condition.ranges : location.asn[1] >= r.start /\ location.asn[1] <= r.end
      [] condition.type = "Custom" ->
            evaluate_custom_field(condition.field, condition.operator, condition.value,
                                  location)
      [] OTHER -> FALSE

\* The loop of check_request over rules[i..]: the state it carries is the
\* matching rule so far and the highest priority seen.
RECURSIVE MatchRules_LastWins(_, _, _, _, _)
MatchRules_LastWins(rules, i, location, matching_rule, highest_priority) ==
    IF i > Len(rules) THEN matching_rule
    ELSE LET rule == rules[i] IN
         IF ~rule.enabled
         THEN MatchRules_LastWins(rules, i + 1, location, matching_rule, highest_priority)
         ELSE IF evaluate_condition(rule.condition, location) /\ rule.priority >= highest_priority
              THEN MatchRules_LastWins(rules, i + 1, location, Some(rule), rule.priority)
              ELSE MatchRules_LastWins(rules, i + 1, location, matching_rule, highest_priority)

RECURSIVE MatchRules(_, _, _, _, _)
MatchRules(rules, i, location, matching_rule, highest_priority) ==
    IF i > Len(rules) THEN matching_rule
    ELSE LET rule == rules[i] IN
         IF ~rule.enabled THEN MatchRules(rules, i + 1, location, matching_rule, highest_priority)
         ELSE IF evaluate_condition(rule.condition, location) /\ rule.priority > highest_priority
              THEN MatchRules(rules, i + 1, location, Some(rule), rule.priority)
              ELSE MatchRules(rules, i + 1, location, matching_rule, highest_priority)

PolicyResult(action, rule_name, location, reason) ==
    [ok |-> TRUE, action |-> action, rule_name |-> rule_name, location |-> Some(location),
     reason |-> reason, error |-> ""]
PolicyErr(msg) ==
    [ok |-> FALSE, action |-> GeoAllow, rule_name |-> None, location |-> None,
     reason |-> "", error |-> msg]

\* Lines 124-154 of check_request: the rules applied to the location found.
apply_rules(policy, location) ==
    LET matching_rule == MatchRules(policy.rules, 1, location, None, 0)
    IN  IF IsSome(matching_rule)
        THEN PolicyResult(matching_rule[1].action, Some(matching_rule[1].name),
                          location, "Matched rule")
        ELSE PolicyResult(policy.default_action, None, location, "No matching rule")

\* GeoPolicyEngine::check_request(ip_address, _path): Result<PolicyResult>
geo_check_request(engine, ip_address) ==
    IF ~engine.policy.enabled
    THEN PolicyResult(engine.policy.default_action, None,
                      LocationInfoNew(ip_address, "Unknown", "Unknown"), "GeoIP policy disabled")
    ELSE IF IsNone(engine.database) THEN PolicyErr("GeoIP database not available")
    ELSE LET found == lookup(ip_address) IN
         IF ~found.ok THEN PolicyErr(found.error)
         ELSE apply_rules(engine.policy,
                          IF IsSome(found.location) THEN found.location[1]
                          ELSE LocationInfoNew(ip_address, "Unknown", "Unknown"))

is_enabled(engine) == engine.policy.enabled /\ IsSome(engine.database)

(***************************************************************************)
(* server/router.rs: the request handler                                   *)
(***************************************************************************)
\* Bounds of the model: time advances in steps of TickSeconds, MaxTicks times.
TickSeconds == 21600
MaxTicks == 2

Methods == {"GET", "HEAD", "POST"}

\* warp::path::Tail of the requests
Tails ==
    {"dists/bookworm/InRelease",
     "dists/bookworm/main/binary-amd64/Packages.gz",
     "dists/sid/main/binary-amd64/Packages.gz",
     "pool/main/a/apt/apt_2.6.1_amd64.deb",
     "invalid/path"}

Headers(xff, real_ip, x_forwarded) ==
    [x_forwarded_for |-> xff, x_real_ip |-> real_ip, x_forwarded |-> x_forwarded]

HeaderMaps ==
    {Headers(None, None, None),
     Headers(Some("203.0.113.1"), None, None),
     Headers(Some(" 8.8.8.8 , 203.0.113.1"), Some("10.0.0.1"), None),
     Headers(Some("not-an-ip"), None, None),
     Headers(None, Some("10.0.0.1"), Some("203.0.113.1"))}

\* What the upstream origin may answer to one GET.
UpstreamReplies ==
    {[sent |-> FALSE, status |-> 0, headers |-> {}, read |-> FALSE, body |-> ""],
     [sent |-> TRUE, status |-> 404, headers |-> {}, read |-> TRUE, body |-> "not found"],
     [sent |-> TRUE, status |-> 200, headers |-> {<<"content-type", "application/octet-stream">>},
      read |-> TRUE, body |-> "signed InRelease"],
     [sent |-> TRUE, status |-> 200, headers |-> {<<"content-type", "application/octet-stream">>},
      read |-> TRUE, body |-> "tampered"]}

\* The environment of one verify_inrelease call.
GpgIo == {"ok", "write_error", "spawn_error"}

MirrorRules ==
    << GeoRule("Log US", [type |-> "CountryCode", codes |-> {"US"}], GeoLogOnly, 10, TRUE),
       GeoRule("Send CN to a mirror", [type |-> "CountryCode", codes |-> {"CN"}],
               GeoRedirect("https://mirror.example/debian"), 20, TRUE) >>

RuleSets == {DefaultRules, MirrorRules}

DefaultActions ==
    {GeoAllow, GeoDeny, GeoRateLimit(100), GeoLogOnly, GeoRedirect("https://mirror.example/debian")}

\* The engines build_routes may hand to the handler: every policy of the
\* configuration surface, with the database file loading or failing to load.
GeoEngines ==
    {GeoPolicyEngineNew(GeoPolicy(e, r, d), l) :
        e \in BOOLEAN, r \in RuleSets, d \in DefaultActions, l \in BOOLEAN}

VARIABLES
    cache,              \* CacheManager.cache: path -> CacheEntry
    now,                \* the clock (Instant::now), in seconds
    geo_policy_engine,  \* the GeoPolicyEngine of build_routes
    pc,                 \* the handler's position: "idle", a stage, or "done"
    method, path, headers,  \* the request in hand
    client_ip,          \* Option<String> of extract_client_ip
    events,             \* the audit events the request has emitted, in order
    calls,              \* the collaborator calls the request has made, in order
    geo_result,         \* Option of the Result of geo_policy_engine.check_request
    fetched,            \* Option of the Result of fetcher.fetch
    verification,       \* Option of [data, result] of gpg_verifier.verify_inrelease
    response,           \* Option of the reply handed back to warp
    returned,           \* Option of what a direct call of a component returned
    tmp_files,          \* the files under /tmp: name -> [content, writer]
    verifier_calls      \* the GpgVerifier calls in progress: caller -> its frame

vars == <<cache, now, geo_policy_engine, pc, method, path, headers, client_ip, events,
          calls, geo_result, fetched, verification, response, returned, tmp_files,
          verifier_calls>>

request_vars == <<method, path, headers, client_ip>>

\* what the request handler reads and writes
handler_vars == <<cache, now, geo_policy_engine, pc, request_vars, events, calls,
                  geo_result, fetched, verification, response>>

\* what only the direct calls of the components read and write
aux_vars == <<returned, tmp_files, verifier_calls>>

extract_client_ip_RealIpFirst(h) ==
    IF IsSome(h.x_real_ip) THEN Some(h.x_real_ip[1])
    ELSE IF IsSome(h.x_forwarded_for) THEN Some(Trim(Split(h.x_forwarded_for[1], ",")[1]))
    ELSE IF IsSome(h.x_forwarded) THEN Some(h.x_forwarded[1])
    ELSE None

extract_client_ip(h) ==
    IF IsSome(h.x_forwarded_for) THEN Some(Trim(Split(h.x_forwarded_for[1], ",")[1]))
    ELSE IF IsSome(h.x_real_ip) THEN Some(h.x_real_ip[1])
    ELSE IF IsSome(h.x_forwarded) THEN Some(h.x_forwarded[1])
    ELSE None

extract_response_bytes(reply) == ""

\* The order of the handler's stages (the statement order of handle_debian_request).
Pipeline_GeoFirst ==
    <<"cache_probe", "geo_check", "policy_check", "fetch", "store", "verify", "done">>

Pipeline_FetchBeforeGeo ==
    <<"cache_probe", "policy_check", "fetch", "geo_check", "store", "verify", "done">>

Pipeline ==
    <<"cache_probe", "policy_check", "geo_check", "fetch", "store", "verify", "done">>

NextStage(stage) == Pipeline[(CHOOSE i \in 1..Len(Pipeline) : Pipeline[i] = stage) + 1]

\* The match on action_result.action: the audit event, and the reply that
\* ends the request (None: the handler goes on).
geo_disposition_DenyGoesOn(action) ==
    CASE action.type = "Deny" -> [event |-> "GeoIPDenied", reply |-> None]
      [] action.type = "RateLimit" ->
            [event |-> "GeoIPRateLimit",
             reply |-> Some(JsonReply(403, "error", "Rate limited by GeoIP policy"))]
      [] action.type = "Allow" -> [event |-> "GeoIPAllowed", reply |-> None]
      [] action.type = "LogOnly" -> [event |-> "GeoIPLogOnly", reply |-> None]
      [] action.type = "Redirect" ->
            [event |-> "GeoIPRedirect", reply |-> Some(JsonReply(302, "redirect", action.url))]

geo_disposition(action) ==
    CASE action.type = "Deny" ->
            [event |-> "GeoIPDenied",
             reply |-> Some(JsonReply(403, "error", "Access denied by GeoIP policy"))]
      [] action.type = "RateLimit" ->
            [event |-> "GeoIPRateLimit",
             reply |-> Some(JsonReply(429, "error", "Rate limited by GeoIP policy"))]
      [] action.type = "Allow" -> [event |-> "GeoIPAllowed", reply |-> None]
      [] action.type = "LogOnly" -> [event |-> "GeoIPLogOnly", reply |-> None]
      [] action.type = "Redirect" ->
            [event |-> "GeoIPRedirect", reply |-> Some(JsonReply(302, "redirect", action.url))]

Init ==
    /\ returned = None
    /\ tmp_files = NoFiles
    /\ verifier_calls = NoCalls
    /\ cache = CacheNew
    /\ now = 0
    /\ geo_policy_engine \in GeoEngines
    /\ pc = "idle"
    /\ method = "GET"
    /\ path = ""
    /\ headers = Headers(None, None, None)
    /\ client_ip = None
    /\ events = <<>>
    /\ calls = <<>>
    /\ geo_result = None
    /\ fetched = None
    /\ verification = None
    /\ response = None

\* Lines 70-74: a request arrives; the path is rebuilt, the client IP
\* extracted, the Request event logged.
Receive(m, tail, h) ==
    /\ UNCHANGED aux_vars
    /\ pc \in {"idle", "done"}
    /\ method' = m
    /\ path' = "/debian/" \o tail
    /\ headers' = h
    /\ client_ip' = extract_client_ip(h)
    /\ events' = <<"Request">>
    /\ calls' = <<>>
    /\ geo_result' = None
    /\ fetched' = None
    /\ verification' = None
    /\ response' = None
    /\ pc' = Pipeline[1]
    /\ UNCHANGED <<cache, now, geo_policy_engine>>

\* Lines 76-82: the cache probe.
CacheProbe ==
    /\ UNCHANGED aux_vars
    /\ pc = "cache_probe"
    /\ calls' = Append(calls, "cache.get")
    /\ IF IsSome(cache_get(cache, path, now))
       THEN /\ events' = Append(events, "CacheHit")
            /\ response' = Some(JsonReply(200, "cached", "true"))
            /\ pc' = "done"
       ELSE /\ pc' = NextStage(pc)
            /\ UNCHANGED <<events, response>>
    /\ UNCHANGED <<cache, now, geo_policy_engine, request_vars, geo_result, fetched,
                   verification>>

\* Lines 84-90: the archive-policy check.
PolicyCheck ==
    /\ UNCHANGED aux_vars
    /\ pc = "policy_check"
    /\ calls' = Append(calls, "policy.check_request")
    /\ IF ~check_request(PolicyConfigDefault, path, method)
       THEN /\ events' = Append(events, "Request")
            /\ response' = Some(JsonReply(403, "error", "Access denied by policy"))
            /\ pc' = "done"
       ELSE /\ pc' = NextStage(pc)
            /\ UNCHANGED <<events, response>>
    /\ UNCHANGED <<cache, now, geo_policy_engine, request_vars, geo_result, fetched,
                   verification>>

\* Lines 92-124: the geo-policy check.
GeoCheck ==
    /\ UNCHANGED aux_vars
    /\ pc = "geo_check"
    /\ IF IsSome(client_ip)
       THEN LET action_result == geo_check_request(geo_policy_engine, client_ip[1]) IN
            /\ calls' = Append(calls, "geo.check_request")
            /\ geo_result' = Some(action_result)
            /\ IF action_result.ok
               THEN LET d == geo_disposition(action_result.action) IN
                    /\ events' = Append(events, d.event)
                    /\ response' = d.reply
                    /\ pc' = IF IsSome(d.reply) THEN "done" ELSE NextStage(pc)
               ELSE /\ pc' = NextStage(pc)
                    /\ UNCHANGED <<events, response>>
       ELSE /\ pc' = NextStage(pc)
            /\ UNCHANGED <<calls, geo_result, events, response>>
    /\ UNCHANGED <<cache, now, geo_policy_engine, request_vars, fetched, verification>>

\* Lines 126-128 and 152-158: the upstream fetch.
Fetch_ErrorGoesOn(reply) ==
    /\ UNCHANGED aux_vars
    /\ pc = "fetch"
    /\ calls' = Append(calls, "fetcher.fetch")
    /\ fetched' = Some(fetch(path, reply))
    /\ events' = Append(events, IF fetch(path, reply).ok THEN "FetchSuccess" ELSE "FetchError")
    /\ pc' = NextStage(pc)
    /\ UNCHANGED <<cache, now, geo_policy_engine, request_vars, geo_result, verification,
                   response>>

Fetch(reply) ==
    /\ UNCHANGED aux_vars
    /\ pc = "fetch"
    /\ calls' = Append(calls, "fetcher.fetch")
    /\ fetched' = Some(fetch(path, reply))
    /\ IF fetch(path, reply).ok
       THEN /\ events' = Append(events, "FetchSuccess")
            /\ pc' = NextStage(pc)
            /\ UNCHANGED response
       ELSE /\ events' = Append(events, "FetchError")
            /\ response' = Some(JsonReply(500, "error", fetch(path, reply).error))
            /\ pc' = "done"
    /\ UNCHANGED <<cache, now, geo_policy_engine, request_vars, geo_result, verification>>

\* Line 129: cache admission.
Store ==
    /\ UNCHANGED aux_vars
    /\ pc = "store"
    /\ calls' = Append(calls, "cache.store")
    /\ cache' = cache_store(cache, path, fetched[1].response, now)
    /\ pc' = NextStage(pc)
    /\ UNCHANGED <<now, geo_policy_engine, request_vars, events, geo_result, fetched,
                   verification, response>>

\* Lines 131-150: signature verification of a release index, then the reply.
Verify_ServesUnverified(io) ==
    /\ UNCHANGED aux_vars
    /\ pc = "verify"
    /\ IF EndsWith(path, "InRelease") \/ EndsWith(path, "Release")
       THEN LET response_bytes == extract_response_bytes(fetched[1].response)
                verification_result == verify_inrelease(response_bytes, io)
            IN  /\ calls' = Append(calls, "gpg.verify_inrelease")
                /\ verification' = Some([data |-> response_bytes, result |-> verification_result])
                /\ events' = IF ~verification_result.ok THEN events
                             ELSE IF verification_result.valid
                                  THEN Append(events, "VerificationSuccess")
                                  ELSE Append(events, "VerificationFailed")
       ELSE UNCHANGED <<calls, verification, events>>
    /\ response' = Some(fetched[1].response)
    /\ pc' = "done"
    /\ UNCHANGED <<cache, now, geo_policy_engine, request_vars, geo_result, fetched>>

Verify(io) ==
    /\ UNCHANGED aux_vars
    /\ pc = "verify"
    /\ IF EndsWith(path, "InRelease") \/ EndsWith(path, "Release")
       THEN LET response_bytes == extract_response_bytes(fetched[1].response)
                verification_result == verify_inrelease(response_bytes, io)
            IN  /\ calls' = Append(calls, "gpg.verify_inrelease")
                /\ verification' = Some([data |-> response_bytes, result |-> verification_result])
                /\ IF verification_result.ok /\ ~verification_result.valid
                   THEN /\ events' = Append(events, "VerificationFailed")
                        /\ response' = Some(JsonReply(400, "error", "GPG verification failed"))
                   ELSE /\ events' = IF verification_result.ok
                                     THEN Append(events, "VerificationSuccess")
                                     ELSE events
                        /\ response' = Some(fetched[1].response)
       ELSE /\ response' = Some(fetched[1].response)
            /\ UNCHANGED <<calls, verification, events>>
    /\ pc' = "done"
    /\ UNCHANGED <<cache, now, geo_policy_engine, request_vars, geo_result, fetched>>

\* Time passes.
Tick ==
    /\ UNCHANGED aux_vars
    /\ now + TickSeconds <= MaxTicks * TickSeconds
    /\ now' = now + TickSeconds
    /\ UNCHANGED <<cache, geo_policy_engine, pc, request_vars, events, calls, geo_result,
                   fetched, verification, response>>

Next ==
    \/ \E m \in Methods, tail \in Tails, h \in HeaderMaps : Receive(m, tail, h)
    \/ CacheProbe
    \/ PolicyCheck
    \/ GeoCheck
    \/ \E reply \in UpstreamReplies : Fetch(reply)
    \/ Store
    \/ \E io \in GpgIo : Verify(io)
    \/ Tick

Spec == Init /\ [][Next]_vars

(***************************************************************************)
(* The handler over a CacheManager whose map holds entries: the states     *)
(* CacheManager::get is written for.  Each entry is an upstream answer     *)
(* admitted at instant 0 with the TTL of its path.                         *)
(***************************************************************************)
CachedPaths ==
    {"/debian/dists/bookworm/InRelease",
     "/debian/dists/bookworm/main/binary-amd64/Packages.gz"}

WarmCaches ==
    {[p \in D |-> CacheEntry(Response(200, {<<"content-type", "application/octet-stream">>},
                                      BytesBody("signed InRelease")), 0, determine_ttl(p))] :
        D \in SUBSET CachedPaths \ {{}}}

InitWarm ==
    /\ returned = None
    /\ tmp_files = NoFiles
    /\ verifier_calls = NoCalls
    /\ cache \in WarmCaches
    /\ now = 0
    /\ geo_policy_engine \in GeoEngines
    /\ pc = "idle"
    /\ method = "GET"
    /\ path = ""
    /\ headers = Headers(None, None, None)
    /\ client_ip = None
    /\ events = <<>>
    /\ calls = <<>>
    /\ geo_result = None
    /\ fetched = None
    /\ verification = None
    /\ response = None

SpecWarm == InitWarm /\ [][Next]_vars

(***************************************************************************)
(* The handler beside the cache's maintenance operations, which any holder *)
(* of the CacheManager may call between two steps of a request.  The map   *)
(* starts with one entry of each TTL class, admitted at instant 0.         *)
(***************************************************************************)
FullCache ==
    [p \in {"/debian/dists/bookworm/InRelease",
            "/debian/dists/bookworm/main/binary-amd64/Packages.gz",
            "/debian/pool/main/a/apt/apt_2.6.1_amd64.deb"} |->
        CacheEntry(Response(200, {<<"content-type", "application/octet-stream">>},
                            BytesBody("signed InRelease")), 0, determine_ttl(p))]

InitMaint ==
    /\ returned = None
    /\ tmp_files = NoFiles
    /\ verifier_calls = NoCalls
    /\ cache = FullCache
    /\ now = 0
    /\ geo_policy_engine \in GeoEngines
    /\ pc = "idle"
    /\ method = "GET"
    /\ path = ""
    /\ headers = Headers(None, None, None)
    /\ client_ip = None
    /\ events = <<>>
    /\ calls = <<>>
    /\ geo_result = None
    /\ fetched = None
    /\ verification = None
    /\ response = None

CleanupExpired ==
    /\ UNCHANGED aux_vars
    /\ cache' = cleanup_expired(cache, now)
    /\ UNCHANGED <<now, geo_policy_engine, pc, request_vars, events, calls, geo_result,
                   fetched, verification, response>>

Clear ==
    /\ UNCHANGED aux_vars
    /\ cache' = clear(cache)
    /\ UNCHANGED <<now, geo_policy_engine, pc, request_vars, events, calls, geo_result,
                   fetched, verification, response>>

NextMaint ==
    \/ Next
    \/ CleanupExpired
    \/ Clear

SpecMaint == InitMaint /\ [][NextMaint]_vars

(***************************************************************************)
(* GeoPolicyEngine::check_request on its own: engines whose rule sequences *)
(* cover ties, disabled rules and the ends of the u8 priority range, asked *)
(* about addresses with a record, without one, and unparsable.             *)
(***************************************************************************)
\* Bound of the model: the longest configured rule sequence.
MaxRules == 3

\* GeoRule.priority: u8
Priorities == {0, 1, 255}

RuleNames == <<"r1", "r2", "r3", "r4", "r5">>

RuleConditions ==
    {[type |-> "CountryCode", codes |-> {"CN"}],
     [type |-> "CountryCode", codes |-> {"CN", "US"}]}

\* The rule sequences of length n: the rule at position i is named after i
\* and rate-limits to i requests per minute.
RuleSeqs(n) ==
    {[i \in 1..n |-> GeoRule(RuleNames[i], f[i][1], GeoRateLimit(i), f[i][2], f[i][3])] :
        f \in [1..n -> RuleConditions \X Priorities \X BOOLEAN]}

RuleEngines ==
    {GeoPolicyEngineNew(GeoPolicy(TRUE, rules, GeoAllow), TRUE) :
        rules \in UNION {RuleSeqs(n) : n \in 0..MaxRules}}

RequestIps == {"203.0.113.1", "8.8.8.8", "10.0.0.1", "not-an-ip"}

InitGeo ==
    /\ returned = None
    /\ tmp_files = NoFiles
    /\ verifier_calls = NoCalls
    /\ cache = CacheNew
    /\ now = 0
    /\ geo_policy_engine \in RuleEngines
    /\ pc = "idle"
    /\ method = "GET"
    /\ path = "/debian/dists/bookworm/InRelease"
    /\ headers = Headers(None, None, None)
    /\ client_ip = None
    /\ events = <<>>
    /\ calls = <<>>
    /\ geo_result = None
    /\ fetched = None
    /\ verification = None
    /\ response = None

\* One call of check_request(ip_address, path).
CheckRequest(ip_address) ==
    /\ client_ip' = Some(ip_address)
    /\ geo_result' = Some(geo_check_request(geo_policy_engine, ip_address))
    /\ pc' = "geo_checked"
    /\ UNCHANGED <<cache, now, geo_policy_engine, method, path, headers, events, calls,
                   fetched, verification, response>>
    /\ UNCHANGED aux_vars

NextGeo == \E ip_address \in RequestIps : CheckRequest(ip_address)

SpecGeo == InitGeo /\ [][NextGeo]_vars

(***************************************************************************)
(* The path parser, the archive policy and the TTL classifier on their     *)
(* own: each is called directly on a path drawn from the inputs below.     *)
(***************************************************************************)
\* Bound of the model: the most segments a path has after dists/ or pool/.
MaxSegments == 5

\* What a segment may be: an allowed suite, an allowed component, an allowed
\* and a denied architecture, and the empty string of a doubled or trailing
\* slash.  Each of them is also a wrong value for the other positions.
Segments == {"bookworm", "main", "binary-amd64", "i386", ""}

\* the segments joined by "/", from position i on
RECURSIVE JoinFrom(_, _)
JoinFrom(segs, i) ==
    IF i > Len(segs) THEN ""
    ELSE IF i = Len(segs) THEN segs[i]
    ELSE segs[i] \o "/" \o JoinFrom(segs, i + 1)

SegmentSeqs == UNION {[1..n -> Segments] : n \in 0..MaxSegments}

ArchivePaths ==
    {"/debian/" \o head \o "/" \o JoinFrom(segs, 1) :
        head \in {"dists", "pool"}, segs \in SegmentSeqs}

\* Paths outside /debian/dists/ and /debian/pool/.
OtherPaths ==
    {"", "/debian", "/debian/", "/debian/dists", "/debian/pool", "/debian/invalid/path",
     "/ubuntu/dists/noble/Release", "/debian/poolx/main/a/apt/apt_2.6.1_amd64.deb"}

\* Paths of every TTL class, and .deb paths that carry the name of another class.
TtlPaths ==
    {"/debian/pool/main/" \o name \o suffix :
        name \in {"apt_2.6.1_amd64", "Release-notes_1", "InRelease", "Packages-tools_1",
                  "Sources", "Release.gpg"},
        suffix \in {"", ".deb", ".gz"}}

PathInputs == ArchivePaths \cup OtherPaths \cup TtlPaths

\* PolicyEngine::from_config: the default configuration, one that lists an
\* architecture as both allowed and denied, and one that allows no suite.
PolicyConfigs ==
    {PolicyConfigDefault,
     [PolicyConfigDefault EXCEPT !.denied_architectures = {"i386", "binary-amd64"}],
     [PolicyConfigDefault EXCEPT !.allowed_suites = {}],
     [PolicyConfigDefault EXCEPT !.allowed_components = {}, !.allowed_architectures = {}]}

InitPath ==
    /\ returned = None
    /\ tmp_files = NoFiles
    /\ verifier_calls = NoCalls
    /\ cache = CacheNew
    /\ now = 0
    /\ geo_policy_engine = GeoPolicyEngineNew(GeoPolicyDefault, FALSE)
    /\ pc = "idle"
    /\ method = "GET"
    /\ path \in PathInputs
    /\ headers = Headers(None, None, None)
    /\ client_ip = None
    /\ events = <<>>
    /\ calls = <<>>
    /\ geo_result = None
    /\ fetched = None
    /\ verification = None
    /\ response = None

\* PathParser::parse_debian_path(path)
ParsePath ==
    /\ returned' = Some([call |-> "parse_debian_path", result |-> parse_debian_path(path)])
    /\ UNCHANGED <<handler_vars, tmp_files, verifier_calls>>

\* PolicyEngine::from_config(cfg).check_path(path)
CheckPath(cfg) ==
    /\ returned' = Some([call |-> "check_path", cfg |-> cfg, result |-> check_path(cfg, path)])
    /\ UNCHANGED <<handler_vars, tmp_files, verifier_calls>>

\* CacheManager::determine_ttl(path)
DetermineTtl ==
    /\ returned' = Some([call |-> "determine_ttl", result |-> determine_ttl(path)])
    /\ UNCHANGED <<handler_vars, tmp_files, verifier_calls>>

NextPath ==
    \/ ParsePath
    \/ \E cfg \in PolicyConfigs : CheckPath(cfg)
    \/ DetermineTtl

SpecPath == InitPath /\ [][NextPath]_vars

(***************************************************************************)
(* The signature verifier, step by step (verify/gpg.rs:37-82): two callers *)
(* of GpgVerifier share the directory /tmp.  A call writes its temporary   *)
(* file(s), runs gpg on them, removes them and parses the output; the      *)
(* steps of different calls interleave freely.                             *)
(***************************************************************************)

Callers == {1, 2}

VerifierFns == {"verify_inrelease", "verify_release_with_sig"}

temp_path == "/tmp/inrelease_temp"
release_path == "/tmp/release_temp"
sig_path == "/tmp/release_sig_temp"

\* The detached signature that the archive key makes of a message.
Signature(data) == "signature of " \o data

VerifierData == {"signed InRelease", "tampered"}
VerifierSigs == {Signature("signed InRelease")}

\* Outcomes of fs::write and of Command::output: done, or an io::Error.
IoOutcomes == {"ok", "error"}

\* gpg --verify <sig_path> <release_path> on the content of the two files.
gpg_verify_detached(sig, data) ==
    IF data \in SignedMessages /\ sig = Signature(data)
    THEN [success |-> TRUE, stdout |-> <<"gpg: using RSA key 0E98404D386FA1D9,">>, stderr |-> ""]
    ELSE [success |-> FALSE, stdout |-> <<>>, stderr |-> "gpg: BAD signature"]

\* gpg on a file that is not there.
gpg_no_file == [success |-> FALSE, stdout |-> <<>>, stderr |-> "gpg: can't open the file"]

Exists(file) == file \in DOMAIN tmp_files

\* fs::write(file, content) by the call id: creates the file or replaces its content.
fs_write(files, file, content, id) ==
    [f \in DOMAIN files \cup {file} |->
        IF f = file THEN [content |-> content, writer |-> id] ELSE files[f]]

\* fs::remove_file(file), its error dropped.
fs_remove_file(files, file) == [f \in DOMAIN files \ {file} |-> files[f]]

Frame(fn, data, sig) ==
    [fn |-> fn, pc |-> "write", data |-> data, sig |-> sig, output |-> None, result |-> None]

Running(id) == id \in DOMAIN verifier_calls

SetFrame(id, frame) ==
    [c \in DOMAIN verifier_calls \cup {id} |-> IF c = id THEN frame ELSE verifier_calls[c]]

InitGpg ==
    /\ returned = None
    /\ tmp_files = NoFiles
    /\ verifier_calls = NoCalls
    /\ cache = CacheNew
    /\ now = 0
    /\ geo_policy_engine = GeoPolicyEngineNew(GeoPolicyDefault, FALSE)
    /\ pc = "idle"
    /\ method = "GET"
    /\ path = "/debian/dists/bookworm/InRelease"
    /\ headers = Headers(None, None, None)
    /\ client_ip = None
    /\ events = <<>>
    /\ calls = <<>>
    /\ geo_result = None
    /\ fetched = None
    /\ verification = None
    /\ response = None

\* A caller enters verify_inrelease(data) or verify_release_with_sig(data, sig).
Call(id, fn, data, sig) ==
    /\ ~Running(id)
    /\ verifier_calls' = SetFrame(id, Frame(fn, data, IF fn = "verify_inrelease" THEN "" ELSE sig))
    /\ UNCHANGED <<handler_vars, returned, tmp_files>>

\* fs::write(temp_path, inrelease_data)?  /  fs::write(release_path, release_data)?
WriteTemp(id, io) ==
    /\ Running(id)
    /\ verifier_calls[id].pc = "write"
    /\ LET frame == verifier_calls[id]
           file == IF frame.fn = "verify_inrelease" THEN temp_path ELSE release_path
       IN  IF io = "ok"
           THEN /\ tmp_files' = fs_write(tmp_files, file, frame.data, id)
                /\ verifier_calls' =
                       SetFrame(id, [frame EXCEPT !.pc = IF frame.fn = "verify_inrelease"
                                                         THEN "gpg" ELSE "write_sig"])
           ELSE /\ tmp_files' = tmp_files
                /\ verifier_calls' =
                       SetFrame(id, [frame EXCEPT !.pc = "done",
                                                  !.result = Some(GpgErr("cannot write " \o file))])
    /\ UNCHANGED <<handler_vars, returned>>

\* fs::write(sig_path, signature_data)?
WriteSig(id, io) ==
    /\ Running(id)
    /\ verifier_calls[id].pc = "write_sig"
    /\ LET frame == verifier_calls[id]
       IN  IF io = "ok"
           THEN /\ tmp_files' = fs_write(tmp_files, sig_path, frame.sig, id)
                /\ verifier_calls' = SetFrame(id, [frame EXCEPT !.pc = "gpg"])
           ELSE /\ tmp_files' = tmp_files
                /\ verifier_calls' =
                       SetFrame(id, [frame EXCEPT !.pc = "done",
                                                  !.result = Some(GpgErr("cannot write " \o sig_path))])
    /\ UNCHANGED <<handler_vars, returned>>

\* Command::new("gpg") ... .output()?  : gpg reads what the files hold when it runs.
RunGpg(id, io) ==
    /\ Running(id)
    /\ verifier_calls[id].pc = "gpg"
    /\ LET frame == verifier_calls[id]
           output == IF frame.fn = "verify_inrelease"
                     THEN IF Exists(temp_path)
                          THEN gpg_verify(tmp_files[temp_path].content)
                          ELSE gpg_no_file
                     ELSE IF Exists(sig_path) /\ Exists(release_path)
                          THEN gpg_verify_detached(tmp_files[sig_path].content,
                                                   tmp_files[release_path].content)
                          ELSE gpg_no_file
       IN  IF io = "ok"
           THEN verifier_calls' =
                    SetFrame(id, [frame EXCEPT !.pc = "remove", !.output = Some(output)])
           ELSE verifier_calls' =
                    SetFrame(id, [frame EXCEPT !.pc = "done",
                                               !.result = Some(GpgErr("cannot run gpg"))])
    /\ UNCHANGED <<handler_vars, returned, tmp_files>>

\* let _ = fs::remove_file(temp_path)  /  let _ = fs::remove_file(release_path)
RemoveTemp(id) ==
    /\ Running(id)
    /\ verifier_calls[id].pc = "remove"
    /\ LET frame == verifier_calls[id]
       IN  IF frame.fn = "verify_inrelease"
           THEN /\ tmp_files' = fs_remove_file(tmp_files, temp_path)
                /\ verifier_calls' = SetFrame(id, [frame EXCEPT !.pc = "parse"])
           ELSE /\ tmp_files' = fs_remove_file(tmp_files, release_path)
                /\ verifier_calls' = SetFrame(id, [frame EXCEPT !.pc = "remove_sig"])
    /\ UNCHANGED <<handler_vars, returned>>

\* let _ = fs::remove_file(sig_path)
RemoveSig(id) ==
    /\ Running(id)
    /\ verifier_calls[id].pc = "remove_sig"
    /\ tmp_files' = fs_remove_file(tmp_files, sig_path)
    /\ verifier_calls' = SetFrame(id, [verifier_calls[id] EXCEPT !.pc = "parse"])
    /\ UNCHANGED <<handler_vars, returned>>

\* self.parse_gpg_output(&output)
ParseOutput(id) ==
    /\ Running(id)
    /\ verifier_calls[id].pc = "parse"
    /\ verifier_calls' =
           SetFrame(id, [verifier_calls[id] EXCEPT
                            !.pc = "done",
                            !.result = Some(parse_gpg_output(verifier_calls[id].output[1]))])
    /\ UNCHANGED <<handler_vars, returned, tmp_files>>

\* The call hands the Result in its frame to the caller; the frame is gone.
Return(id) ==
    /\ Running(id)
    /\ verifier_calls[id].pc = "done"
    /\ verifier_calls' = [c \in DOMAIN verifier_calls \ {id} |-> verifier_calls[c]]
    /\ UNCHANGED <<handler_vars, returned, tmp_files>>

NextGpg ==
    \/ \E id \in Callers, fn \in VerifierFns, data \in VerifierData, sig \in VerifierSigs :
           Call(id, fn, data, sig)
    \/ \E id \in Callers, io \in IoOutcomes : WriteTemp(id, io)
    \/ \E id \in Callers, io \in IoOutcomes : WriteSig(id, io)
    \/ \E id \in Callers, io \in IoOutcomes : RunGpg(id, io)
    \/ \E id \in Callers : RemoveTemp(id)
    \/ \E id \in Callers : RemoveSig(id)
    \/ \E id \in Callers : ParseOutput(id)
    \/ \E id \in Callers : Return(id)

SpecGpg == InitGpg /\ [][NextGpg]_vars

(***************************************************************************)
(* The handler on every combination of the three forwarding headers        *)
(* (router.rs:72, 162-176), on a cold cache and a clock that stands still. *)
(***************************************************************************)

ForwardedForValues == {" 8.8.8.8 , 203.0.113.1", "203.0.113.1", " ,8.8.8.8"}
RealIpValues == {"10.0.0.1"}
ForwardedValues == {"198.51.100.7"}

HeaderInputs ==
    {Headers(xff, real_ip, x_forwarded) :
        xff \in {None} \cup {Some(v) : v \in ForwardedForValues},
        real_ip \in {None} \cup {Some(v) : v \in RealIpValues},
        x_forwarded \in {None} \cup {Some(v) : v \in ForwardedValues}}

NextClientIp ==
    \/ \E m \in Methods, tail \in Tails, h \in HeaderInputs : Receive(m, tail, h)
    \/ CacheProbe
    \/ PolicyCheck
    \/ GeoCheck
    \/ \E reply \in UpstreamReplies : Fetch(reply)
    \/ Store
    \/ \E io \in GpgIo : Verify(io)

SpecClientIp == Init /\ [][NextClientIp]_vars

(***************************************************************************)
(* The handler under a fair scheduler: the runtime goes on polling the     *)
(* future of an accepted request, so each step of the handler that is      *)
(* ready is taken in the end; the upstream fetch ends by its 30 s timeout  *)
(* at the latest.  Nothing obliges a client to send a request.             *)
(***************************************************************************)

\* An upstream answer with a 2xx status other than 200.
PartialReplies ==
    {[sent |-> TRUE, status |-> 206, headers |-> {<<"content-range", "bytes 0-6/20">>},
      read |-> TRUE, body |-> "partial"]}

NextFair ==
    \/ \E m \in Methods, tail \in Tails, h \in HeaderMaps : Receive(m, tail, h)
    \/ CacheProbe
    \/ PolicyCheck
    \/ GeoCheck
    \/ \E reply \in UpstreamReplies \cup PartialReplies : Fetch(reply)
    \/ Store
    \/ \E io \in GpgIo : Verify(io)

\* Weak fairness of PolicyCheck, with ENABLED <<PolicyCheck>>_vars written out:
\* the step is ready exactly when the handler stands at its stage.
PolicyCheckFairness == []<>(pc # "policy_check") \/ []<><<PolicyCheck>>_vars

Fairness ==
    /\ WF_vars(CacheProbe)
    /\ PolicyCheckFairness
    /\ WF_vars(GeoCheck)
    /\ WF_vars(\E reply \in UpstreamReplies \cup PartialReplies : Fetch(reply))
    /\ WF_vars(Store)
    /\ WF_vars(\E io \in GpgIo : Verify(io))

\* A request may find the cache empty or holding entries.
InitFair == Init \/ InitWarm

SpecFair == InitFair /\ [][NextFair]_vars /\ Fairness

(***************************************************************************)
(* The archive policy called directly (policy/rules.rs:69-178): check_path *)
(* on pool paths and check_file_size, under configurations that differ in  *)
(* each of their sets and in the size limit.                               *)
(***************************************************************************)

PoolComponents == {"main", "contrib", "evil"}

PoolFilenames ==
    {"apt_2.6.1_amd64.deb", "apt_2.6.1_i386.deb", "apt.deb", "apt_readme.txt", "apt",
     "bash_5.2_i386.deb", "_apt.deb"}

PoolPaths ==
    {"/debian/pool/" \o c \o "/a/apt/" \o f : c \in PoolComponents, f \in PoolFilenames}
    \cup {"/debian/pool/main/apt/apt_2.6.1_i386.deb", "/debian/pool/evil//a/apt_2.6.1_amd64.deb",
          "/debian/pool/main/a/apt", "/debian/dists/bookworm/main/binary-i386/Packages.gz"}

\* PolicyEngine::from_config on configurations that differ from the default in
\* any of the five sets.
ConfigVariants ==
    {[allowed_suites |-> su, allowed_components |-> co, allowed_architectures |-> ar,
      denied_architectures |-> da, denied_packages |-> dp,
      max_deb_size_mb |-> PolicyConfigDefault.max_deb_size_mb,
      max_request_rate_per_minute |-> PolicyConfigDefault.max_request_rate_per_minute] :
        su \in {PolicyConfigDefault.allowed_suites, {}},
        co \in {PolicyConfigDefault.allowed_components, {"evil"}},
        ar \in {PolicyConfigDefault.allowed_architectures, {}},
        da \in {PolicyConfigDefault.denied_architectures, {}},
        dp \in {PolicyConfigDefault.denied_packages, {"apt"}}}

\* Configurations that differ in limits.max_deb_size_mb.
SizeConfigs ==
    {[PolicyConfigDefault EXCEPT !.max_deb_size_mb = mb] :
        mb \in {PolicyConfigDefault.max_deb_size_mb, 0, 1}}

\* size_bytes around the multiples of 1024 * 1024 that the limits separate
FileSizes ==
    {mb * (1024 * 1024) + extra :
        mb \in {0, 1, 499, 500, 501, 502, 600, 2047},
        extra \in {0, 1, 1024 * 1024 - 1}}

InitPolicy ==
    /\ returned = None
    /\ tmp_files = NoFiles
    /\ verifier_calls = NoCalls
    /\ cache = CacheNew
    /\ now = 0
    /\ geo_policy_engine = GeoPolicyEngineNew(GeoPolicyDefault, FALSE)
    /\ pc = "idle"
    /\ method = "GET"
    /\ path \in PoolPaths
    /\ headers = Headers(None, None, None)
    /\ client_ip = None
    /\ events = <<>>
    /\ calls = <<>>
    /\ geo_result = None
    /\ fetched = None
    /\ verification = None
    /\ response = None

\* PolicyEngine::check_file_size(size_bytes)
CheckFileSize(cfg, size_bytes) ==
    /\ returned' = Some([call |-> "check_file_size", cfg |-> cfg, size_bytes |-> size_bytes,
                         result |-> check_file_size(cfg, size_bytes)])
    /\ UNCHANGED <<handler_vars, tmp_files, verifier_calls>>

NextPolicy ==
    \/ \E cfg \in ConfigVariants : CheckPath(cfg)
    \/ \E cfg \in SizeConfigs, size_bytes \in FileSizes : CheckFileSize(cfg, size_bytes)

SpecPolicy == InitPolicy /\ [][NextPolicy]_vars

(***************************************************************************)
(* The location functions and the rule evaluation called directly, one     *)
(* call on one input in each behaviour (geoip/location.rs:112-200,         *)
(* geoip/policy.rs:124-244).                                               *)
(***************************************************************************)

\* The country codes that location.rs and the default rules name, and some
\* that they do not.
CountryCodes ==
    {"US", "CA", "MX", "GB", "DE", "FR", "IT", "ES", "NL", "BE", "AT", "CH", "SE", "NO",
     "DK", "FI", "PL", "CZ", "HU", "GR", "PT", "IE", "CN", "JP", "KR", "SG", "AU", "NZ",
     "IN", "TH", "MY", "ID", "PH", "BR", "AR", "CL", "CO", "PE", "VE", "EC", "BO", "UY",
     "PY", "ZA", "EG", "NG", "KE", "MA", "TN", "GH", "SA", "AE", "IL", "IR", "IQ", "JO",
     "LB", "SY", "TR", "RU", "KP", "PK", "Unknown", "ZZ", "cn", ""}

\* Locations that differ in the three inputs of the risk score, and in fields
\* beside them.
Locations ==
    {[LocationInfoNew(ip, cc, "Country") EXCEPT
         !.is_anonymous_proxy = proxy, !.is_satellite_provider = satellite, !.timezone = tz] :
        ip \in {"203.0.113.1"}, cc \in CountryCodes, proxy \in BOOLEAN, satellite \in BOOLEAN,
        tz \in {None, Some("Asia/Shanghai")}}

Timezones == {Some(tz) : tz \in DOMAIN TimezoneOffsets \cup {"Mars/Olympus", ""}} \cup {None}

\* Timelike::hour of Utc::now()
UtcHours == 0..23

CustomOperators ==
    {"equals", "not_equals", "contains", "starts_with", "ends_with", "gt", "lt", "ge", "le",
     "matches"}

CustomValues == {"80", "0", "-1", "CN", "abc", ""}

CustomConditions ==
    {[type |-> "Custom", field |-> field, operator |-> operator, value |-> value] :
        field \in CustomFields \cup {"asn"}, operator \in CustomOperators,
        value \in CustomValues}

CustomLocations ==
    {LocationInfoNew("203.0.113.1", "CN", "China"),
     with_anonymous_proxy(LocationInfoNew("8.8.8.8", "US", "United States"), TRUE),
     [LocationInfoNew("10.0.0.1", "DE", "Germany") EXCEPT !.postal_code = Some("80")]}

InitLocation == InitGpg

\* LocationInfo::get_risk_score
GetRiskScore(location) ==
    /\ IsNone(returned)
    /\ returned' = Some([call |-> "get_risk_score", location |-> location,
                         result |-> get_risk_score(location)])
    /\ UNCHANGED <<handler_vars, tmp_files, verifier_calls>>

\* LocationInfo::is_business_hours at the hour utc_hour
IsBusinessHours(location, utc_hour) ==
    /\ IsNone(returned)
    /\ returned' = Some([call |-> "is_business_hours", location |-> location,
                         utc_hour |-> utc_hour,
                         result |-> is_business_hours(location, utc_hour)])
    /\ UNCHANGED <<handler_vars, tmp_files, verifier_calls>>

\* GeoPolicyEngine::evaluate_condition
EvaluateCondition(condition, location) ==
    /\ IsNone(returned)
    /\ returned' = Some([call |-> "evaluate_condition", condition |-> condition,
                         location |-> location,
                         result |-> evaluate_condition(condition, location)])
    /\ UNCHANGED <<handler_vars, tmp_files, verifier_calls>>

\* check_request from the location on, under the rules of GeoPolicy::default()
ApplyDefaultRules(location) ==
    /\ IsNone(returned)
    /\ returned' = Some([call |-> "apply_rules", location |-> location,
                         result |-> apply_rules(GeoPolicyDefault, location)])
    /\ UNCHANGED <<handler_vars, tmp_files, verifier_calls>>

NextLocation ==
    \/ \E location \in Locations : GetRiskScore(location)
    \/ \E tz \in Timezones, utc_hour \in UtcHours :
           IsBusinessHours([LocationInfoNew("203.0.113.1", "US", "United States")
                               EXCEPT !.timezone = tz], utc_hour)
    \/ \E condition \in CustomConditions, location \in CustomLocations :
           EvaluateCondition(condition, location)
    \/ \E location \in Locations : ApplyDefaultRules(location)

SpecLocation == InitLocation /\ [][NextLocation]_vars

(***************************************************************************)
(* verify/hashes.rs: HashVerifier::parse_release_hashes                    *)
(***************************************************************************)
\* The position of the first character of s that is in the set chars, or
\* Len(s) + 1 when there is none.
Find(s, chars) ==
    IF \E i \in 1..Len(s) : SubSeq(s, i, i) \in chars
    THEN CHOOSE i \in 1..Len(s) :
             /\ SubSeq(s, i, i) \in chars
             /\ \A j \in 1..(i - 1) : SubSeq(s, j, j) \notin chars
    ELSE Len(s) + 1

\* str::lines(): the pieces that a line feed ends and the last piece if it is
\* not empty, each without the carriage return that ends it.
RECURSIVE lines(_)
lines(text) ==
    IF text = "" THEN <<>>
    ELSE LET end == Find(text, {"\n"})
             piece == SubSeq(text, 1, end - 1)
         IN  <<IF EndsWith(piece, "\r") THEN SubSeq(piece, 1, Len(piece) - 1) ELSE piece>>
             \o lines(SubSeq(text, end + 1, Len(text)))

\* char::is_whitespace, for the characters of the texts
WhiteSpace == {" ", "\t", "\r", "\n"}

\* str::split_whitespace(): the maximal pieces without white space
RECURSIVE split_whitespace(_)
split_whitespace(s) ==
    IF \A i \in 1..Len(s) : SubSeq(s, i, i) \in WhiteSpace THEN <<>>
    ELSE LET start == CHOOSE i \in 1..Len(s) :
                          /\ SubSeq(s, i, i) \notin WhiteSpace
                          /\ \A j \in 1..(i - 1) : SubSeq(s, j, j) \in WhiteSpace
             rest == SubSeq(s, start, Len(s))
             end == Find(rest, WhiteSpace)
         IN  <<SubSeq(rest, 1, end - 1)>> \o split_whitespace(SubSeq(rest, end, Len(rest)))

\* HashMap::new() and HashMap::insert
NoHashes == [filename \in {} |-> ""]
insert(hashes, key, value) ==
    [k \in DOMAIN hashes \cup {key} |-> IF k = key THEN value ELSE hashes[k]]

SectionEnds_BlankOnly(line) == line = ""

\* the second test of the loop body: the line that ends the section
SectionEnds(line) == line = "" \/ StartsWith(line, "MD5Sum:") \/ StartsWith(line, "SHA1:")

\* The loop over release_content.lines(): the state it carries is the map
\* and in_hashes_section.
RECURSIVE ParseLines(_, _, _)
ParseLines(rest, hashes, in_hashes_section) ==
    IF rest = <<>> THEN hashes
    ELSE LET line == Head(rest)
             parts == split_whitespace(line)
         IN  IF StartsWith(line, "SHA256:") THEN ParseLines(Tail(rest), hashes, TRUE)
             ELSE IF SectionEnds(line) THEN ParseLines(Tail(rest), hashes, FALSE)
             ELSE IF in_hashes_section /\ Len(parts) >= 3
                  THEN ParseLines(Tail(rest), insert(hashes, parts[3], parts[1]),
                                  in_hashes_section)
                  ELSE ParseLines(Tail(rest), hashes, in_hashes_section)

\* parse_release_hashes(release_content): the map of the Ok it always returns
parse_release_hashes(release_content) == ParseLines(lines(release_content), NoHashes, FALSE)

(***************************************************************************)
(* parse_release_hashes called on the text of a checksum table, one call   *)
(* in each behaviour.                                                      *)
(***************************************************************************)
MaxEntries == 2

\* File names without white space, digests and sizes as a Release file
\* carries them.
Filenames == {"main/binary-amd64/Packages", "Packages.gz", "SHA256:"}
HashDigests == {"abc123", "def456"}
FileSizeTexts == {"1024", "0"}

\* The tables: up to MaxEntries entries <<filename, digest, size>> in the
\* order of their lines, no file name twice.
ChecksumTables ==
    {t \in UNION {[1..n -> Filenames \X HashDigests \X FileSizeTexts] : n \in 0..MaxEntries} :
        \A i, j \in DOMAIN t : i # j => t[i][1] # t[j][1]}

\* Lines before the SHA256: header
Preambles ==
    {<<>>, <<"Origin: Debian">>, <<"0a0a0a 10 InRelease">>,
     <<"MD5Sum:", " 0a0a0a 10 main/binary-amd64/Packages">>}

\* The line that ends the section, and lines after it
Trailers ==
    {<<>>, <<"", "0b0b0b 20 extra/Packages">>, <<"MD5Sum:", " 0b0b0b 20 Packages.gz">>,
     <<"SHA1:", "0b0b0b 20 main/binary-amd64/Packages">>}

RECURSIVE JoinLines(_)
JoinLines(ls) == IF ls = <<>> THEN "" ELSE Head(ls) \o "\n" \o JoinLines(Tail(ls))

\* The text of a table: the SHA256: header, then a line "digest size filename"
\* for each entry (the shape of release_content in test_release_hash_parsing).
TableLines(table) ==
    <<"SHA256:">> \o [i \in DOMAIN table |-> table[i][2] \o " " \o table[i][3] \o " " \o table[i][1]]

ParseReleaseHashes(table, preamble, trailer) ==
    /\ IsNone(returned)
    /\ LET release_content == JoinLines(preamble \o TableLines(table) \o trailer)
       IN  returned' = Some([call |-> "parse_release_hashes", table |-> table,
                             preamble |-> preamble, trailer |-> trailer,
                             release_content |-> release_content,
                             result |-> parse_release_hashes(release_content)])
    /\ UNCHANGED <<handler_vars, tmp_files, verifier_calls>>

InitHashes == InitGpg

NextHashes ==
    \E table \in ChecksumTables, preamble \in Preambles, trailer \in Trailers :
        ParseReleaseHashes(table, preamble, trailer)

SpecHashes == InitHashes /\ [][NextHashes]_vars

(***************************************************************************)
(* Vocabulary of the properties                                            *)
(***************************************************************************)
GeoEvents ==
    {"GeoIPAllowed", "GeoIPDenied", "GeoIPRateLimit", "GeoIPRedirect", "GeoIPLogOnly",
     "GeoIPError"}

\* how many events of the request are of a type in types
Count(types) == Cardinality({i \in DOMAIN events : events[i] \in types})

\* the request has called the collaborator
Called(c) == \E i \in DOMAIN calls : calls[i] = c

\* the request was rejected by the archive policy
PolicyRejected ==
    /\ pc # "idle"
    /\ Called("policy.check_request")
    /\ ~check_request(PolicyConfigDefault, path, method)

\* the geo engine returned an action for the request
GeoAction(type) ==
    /\ IsSome(geo_result)
    /\ geo_result[1].ok
    /\ geo_result[1].action.type = type

IsReleaseIndex == EndsWith(path, "InRelease") \/ EndsWith(path, "Release")

\* the request ended with the freshly fetched upstream answer
FreshSuccess ==
    /\ pc = "done"
    /\ IsSome(fetched)
    /\ fetched[1].ok
    /\ response = Some(fetched[1].response)
    /\ IsReleaseIndex =>
          IsSome(verification) /\ verification[1].result.ok /\ verification[1].result.valid

(***************************************************************************)
(* C1: after a request for path p completed with a successful fresh fetch  *)
(* (and a valid signature, for a release index), the cache holds an entry   *)
(* for p with TTL determine_ttl(p), which get returns while it is valid.    *)
(***************************************************************************)
C1_FreshFetchIsCached ==
    FreshSuccess =>
        /\ path \in DOMAIN cache
        /\ cache[path].ttl = determine_ttl(path)
        /\ cache[path].data = fetched[1].response
        /\ (now - cache[path].created_at < cache[path].ttl
               => cache_get(cache, path, now) = Some(fetched[1].response))

C3_RejectionEmitsPolicyViolation ==
    PolicyRejected =>
        /\ pc = "done"
        /\ events = <<"Request", "PolicyViolation">>
        /\ response[1].status = 403
        /\ response[1].body.kind = "json"
        /\ response[1].body.key = "error"

(***************************************************************************)
(* C4: a request whose method is neither GET nor HEAD never reaches the     *)
(* upstream fetch or the cache admission, whatever its path, client IP and  *)
(* geo configuration, and ends with 403 and the JSON body                   *)
(* {"error":"Access denied by policy"}.                                     *)
(***************************************************************************)
C4_OtherMethodsForbidden ==
    (pc # "idle" /\ method \notin {"GET", "HEAD"}) =>
        /\ pc \notin {"fetch", "store", "verify"}
        /\ ~Called("fetcher.fetch")
        /\ ~Called("cache.store")
        /\ path \notin DOMAIN cache
        /\ pc = "done" => response = Some(JsonReply(403, "error", "Access denied by policy"))

C4_Witness ==
    /\ pc = "done"
    /\ method = "POST"
    /\ check_path(PolicyConfigDefault, path).ok
    /\ IsSome(client_ip)
    /\ geo_policy_engine.policy.enabled
    /\ response = Some(JsonReply(403, "error", "Access denied by policy"))

(***************************************************************************)
(* C5: the archive-policy check precedes any geo evaluation: a geo          *)
(* evaluation is always preceded by the policy check, and a request the     *)
(* archive policy rejects makes no geo lookup, emits no GeoIP event and     *)
(* ends with the same 403 reply for every client IP and geo rule set.       *)
(***************************************************************************)
C5_PolicyBeforeGeo ==
    /\ \A j \in DOMAIN calls :
          calls[j] = "geo.check_request" =>
              \E i \in 1..(j - 1) : calls[i] = "policy.check_request"
    /\ PolicyRejected =>
          /\ ~Called("geo.check_request")
          /\ geo_result = None
          /\ Count(GeoEvents) = 0
          /\ pc = "done"
          /\ response = Some(JsonReply(403, "error", "Access denied by policy"))

C5_Witness ==
    /\ PolicyRejected
    /\ method = "GET"
    /\ client_ip = Some("203.0.113.1")
    /\ is_enabled(geo_policy_engine)
    /\ geo_policy_engine.policy.rules = DefaultRules
    /\ response = Some(JsonReply(403, "error", "Access denied by policy"))

(***************************************************************************)
(* C6: when geo evaluation returned an action for a request that passed    *)
(* the archive policy: Deny ends it with 403 and exactly one GeoIPDenied    *)
(* event, RateLimit with 429 and exactly one GeoIPRateLimit event, neither  *)
(* contacting upstream nor writing the cache; Allow and LogOnly emit        *)
(* GeoIPAllowed and GeoIPLogOnly and go on to the upstream fetch.           *)
(***************************************************************************)
C6_GeoActions ==
    /\ GeoAction("Deny") =>
          /\ pc = "done"
          /\ response[1].status = 403
          /\ events = <<"Request", "GeoIPDenied">>
          /\ ~Called("fetcher.fetch") /\ ~Called("cache.store")
    /\ GeoAction("RateLimit") =>
          /\ pc = "done"
          /\ response[1].status = 429
          /\ events = <<"Request", "GeoIPRateLimit">>
          /\ ~Called("fetcher.fetch") /\ ~Called("cache.store")
    /\ GeoAction("Allow") =>
          /\ Count(GeoEvents) = 1 /\ Count({"GeoIPAllowed"}) = 1
          /\ pc = "fetch" \/ Called("fetcher.fetch")
    /\ GeoAction("LogOnly") =>
          /\ Count(GeoEvents) = 1 /\ Count({"GeoIPLogOnly"}) = 1
          /\ pc = "fetch" \/ Called("fetcher.fetch")
    /\ IsSome(geo_result) => check_request(PolicyConfigDefault, path, method)

C6_Witness ==
    /\ GeoAction("RateLimit")
    /\ is_enabled(geo_policy_engine)
    /\ pc = "done"
    /\ response[1].status = 429

(***************************************************************************)
(* C7: when geo evaluation returns Redirect{url}, the reply is 302 with a   *)
(* Location header equal to url and the JSON body {"redirect": url}, a      *)
(* GeoIPRedirect event is emitted and upstream is not contacted.            *)
(***************************************************************************)
C7_RedirectCarriesLocation ==
    GeoAction("Redirect") =>
        /\ pc = "done"
        /\ response[1].status = 302
        /\ response[1].body = JsonBody("redirect", geo_result[1].action.url)
        /\ Count({"GeoIPRedirect"}) = 1
        /\ ~Called("fetcher.fetch")
        /\ \E h \in response[1].headers :
              h[1] \in {"location", "Location"} /\ h[2] = geo_result[1].action.url

(***************************************************************************)
(* C8: when the geo policy is not enabled the geo step is skipped: no       *)
(* evaluation, no GeoIP event, and no reply of the geo step, whatever       *)
(* default_action is configured.                                            *)
(***************************************************************************)
C8_DisabledGeoIsSkipped ==
    ~geo_policy_engine.policy.enabled =>
        /\ Count(GeoEvents) = 0
        /\ IsSome(response) =>
              /\ response[1].status \notin {429, 302}
              /\ response[1].body.value # "Access denied by GeoIP policy"

(***************************************************************************)
(* C9: with the geo policy enabled and the database unavailable,            *)
(* check_request returns (not an error but) a result whose action is        *)
(* default_action, with a reason that names the database.                   *)
(***************************************************************************)
C9_MissingDatabaseYieldsDefault ==
    (/\ IsSome(geo_result)
     /\ geo_policy_engine.policy.enabled
     /\ IsNone(geo_policy_engine.database)) =>
        /\ geo_result[1].ok
        /\ geo_result[1].action = geo_policy_engine.policy.default_action
        /\ Contains(geo_result[1].reason, "database")

(***************************************************************************)
(* C10: when geo evaluation of a request with a client IP fails, the        *)
(* handler emits GeoIPError and applies default_action: with default_action *)
(* Deny the request ends with 403 and never reaches the upstream fetch.     *)
(***************************************************************************)
C10_GeoErrorAudited ==
    (IsSome(geo_result) /\ ~geo_result[1].ok) =>
        /\ Count({"GeoIPError"}) = 1
        /\ geo_policy_engine.policy.default_action.type = "Deny" =>
              /\ pc = "done"
              /\ response[1].status = 403
              /\ ~Called("fetcher.fetch")

(***************************************************************************)
(* Vocabulary of the properties about check_request                        *)
(***************************************************************************)
\* check_request returned Ok for the address asked about
GeoChecked == pc = "geo_checked" /\ geo_result[1].ok

\* the positions of the enabled rules whose condition holds for the location
Matching ==
    LET rules == geo_policy_engine.policy.rules IN
    {i \in DOMAIN rules :
        /\ rules[i].enabled
        /\ geo_result[1].location[1].country_code \in rules[i].condition.codes}

\* the engine without its disabled rules
WithoutDisabledRules(engine) ==
    [engine EXCEPT !.policy.rules = SelectSeq(@, LAMBDA r : r.enabled)]

(***************************************************************************)
(* C11: whenever check_request reports a matched rule r, r is enabled, its *)
(* condition holds for the location, no enabled matching rule has a        *)
(* strictly higher priority, and r is the first of the enabled matching    *)
(* rules of its priority; dropping the disabled rules from the             *)
(* configuration leaves the result unchanged.                              *)
(***************************************************************************)
C11_MatchedRuleIsFirstOfHighestPriority ==
    GeoChecked =>
        LET rules == geo_policy_engine.policy.rules
            result == geo_result[1]
        IN  /\ IsSome(result.rule_name) =>
                  \E i \in Matching :
                      /\ result.rule_name = Some(rules[i].name)
                      /\ result.action = rules[i].action
                      /\ \A j \in Matching :
                            /\ rules[j].priority <= rules[i].priority
                            /\ rules[j].priority = rules[i].priority => i <= j
            /\ result = geo_check_request(WithoutDisabledRules(geo_policy_engine),
                                          client_ip[1])

\* a tie between two enabled matching rules under a disabled rule of higher
\* priority: the first of the two is reported
C11_Witness ==
    /\ GeoChecked
    /\ geo_result[1].rule_name = Some("r1")
    /\ LET rules == geo_policy_engine.policy.rules IN
       /\ Len(rules) = 3
       /\ {1, 2} \subseteq Matching
       /\ rules[1].priority = 1 /\ rules[2].priority = 1
       /\ ~rules[3].enabled /\ rules[3].priority = 255
       /\ geo_result[1].location[1].country_code \in rules[3].condition.codes

(***************************************************************************)
(* C12: with the policy enabled and the database available, check_request  *)
(* returns default_action with no rule name if and only if no enabled      *)
(* rule's condition holds for the location, whatever the priorities.       *)
(***************************************************************************)
C12_DefaultIffNoRuleMatches ==
    GeoChecked =>
        ((/\ geo_result[1].action = geo_policy_engine.policy.default_action
          /\ IsNone(geo_result[1].rule_name))
         <=> Matching = {})

(***************************************************************************)
(* C13: when the upstream fetch fails (no answer, or an answer that is not *)
(* 2xx), the handler emits FetchError and no FetchSuccess, answers 500,    *)
(* does not call cache admission and leaves no cache entry for the path.   *)
(***************************************************************************)
C13_FetchFailureIsNotCached ==
    (IsSome(fetched) /\ ~fetched[1].ok) =>
        /\ pc = "done"
        /\ Count({"FetchError"}) = 1
        /\ Count({"FetchSuccess"}) = 0
        /\ Last(events) = "FetchError"
        /\ IsSome(response)
        /\ response[1].status = 500
        /\ response[1].body.kind = "json" /\ response[1].body.key = "error"
        /\ ~Called("cache.store")
        /\ path \notin DOMAIN cache

\* the upstream answered 404; the request ended with the 500
C13_Witness ==
    /\ pc = "done"
    /\ IsSome(fetched)
    /\ fetched[1] = FetchErr("Upstream returned status")
    /\ response = Some(JsonReply(500, "error", "Upstream returned status"))

(***************************************************************************)
(* Vocabulary of the properties about verification                         *)
(***************************************************************************)
\* the verifier ran for the request and reported a result
VerifierReported == IsSome(verification) /\ verification[1].result.ok

\* the position of the first call of collaborator c in the request (0: none)
CallIndex(c) ==
    IF Called(c) THEN CHOOSE i \in DOMAIN calls :
                          calls[i] = c /\ \A j \in 1..(i - 1) : calls[j] # c
    ELSE 0

\* the request ended with the status and body fetched from upstream
ServedFetched ==
    /\ pc = "done"
    /\ IsSome(fetched)
    /\ fetched[1].ok
    /\ response = Some(fetched[1].response)

C15_AdmissionOnlyAfterVerification ==
    (IsReleaseIndex /\ Called("cache.store")) =>
        /\ VerifierReported
        /\ verification[1].result.valid
        /\ CallIndex("gpg.verify_inrelease") < CallIndex("cache.store")

(***************************************************************************)
(* C16: a freshly fetched release index is returned with the upstream      *)
(* status and body only if the verifier returned valid = true and a        *)
(* VerificationSuccess event was emitted for the request; in particular    *)
(* not when the verifier returned an error.                                *)
(***************************************************************************)
C16_ServedOnlyIfVerified ==
    (IsReleaseIndex /\ ServedFetched) =>
        /\ VerifierReported
        /\ verification[1].result.valid
        /\ Count({"VerificationSuccess"}) = 1

(***************************************************************************)
(* Vocabulary of the properties about the audit trail                      *)
(***************************************************************************)
\* the request ended with an artifact: the cached reply or the fetched one
Successful == pc = "done" /\ IsSome(response) /\ is_success(response[1].status)

\* Request -> (CacheHit | (GeoIP* | nothing) -> FetchSuccess -> (VerificationSuccess | nothing))
SuccessOrders ==
    {<<"Request", "CacheHit">>}
    \cup {<<"Request">> \o g \o <<"FetchSuccess">> \o v :
             g \in {<<>>} \cup {<<e>> : e \in GeoEvents},
             v \in {<<>>, <<"VerificationSuccess">>}}

\* the request ended in the cache-hit branch
HitBranch == pc = "done" /\ calls = <<"cache.get">>

\* the request ended in the branch whose terminal event is `type`: that
\* event was emitted once, as the last event
EndsWith1(type) == Count({type}) = 1 /\ Last(events) = type

(***************************************************************************)
(* C17: every request that ends with a successful (cached or freshly       *)
(* fetched) response has emitted Request, then either CacheHit alone, or   *)
(* at most one GeoIP event, then FetchSuccess, then at most one            *)
(* VerificationSuccess, and nothing else.                                  *)
(***************************************************************************)
C17_SuccessfulEventOrder == Successful => events \in SuccessOrders

\* a fresh fetch that passed a log-only geo rule
C17_Witness ==
    /\ Successful
    /\ ServedFetched
    /\ events = <<"Request", "GeoIPLogOnly", "FetchSuccess">>

(***************************************************************************)
(* C18: every handled request emits exactly one Request event, as its      *)
(* first event, and every short-circuiting branch (cache hit, policy       *)
(* rejection, geo deny, geo rate-limit, geo redirect, fetch error,         *)
(* verification failure) emits exactly one terminal event of its type.     *)
(***************************************************************************)
C18_OneRequestOneTerminalEvent ==
    pc # "idle" =>
        /\ events[1] = "Request"
        /\ Count({"Request"}) = 1
        /\ pc = "done" =>
              /\ HitBranch => EndsWith1("CacheHit")
              /\ PolicyRejected => EndsWith1("PolicyViolation")
              /\ GeoAction("Deny") => EndsWith1("GeoIPDenied")
              /\ GeoAction("RateLimit") => EndsWith1("GeoIPRateLimit")
              /\ GeoAction("Redirect") => EndsWith1("GeoIPRedirect")
              /\ (IsSome(fetched) /\ ~fetched[1].ok) => EndsWith1("FetchError")
              /\ (VerifierReported /\ ~verification[1].result.valid) =>
                    EndsWith1("VerificationFailed")

(***************************************************************************)
(* Vocabulary of the properties about the cache                            *)
(***************************************************************************)
\* the entry of path p has not outlived its TTL at the present instant
Live(p) == p \in DOMAIN cache /\ now - cache[p].created_at < cache[p].ttl

(***************************************************************************)
(* C19: a probe of the cache finds the entry of the path, and get returns  *)
(* its data, if and only if now - created_at < ttl; an entry with          *)
(* now - created_at >= ttl is reported absent though it is still in the    *)
(* map; get never modifies the map.                                        *)
(***************************************************************************)
C19_GetHonoursTtl ==
    [][(pc = "cache_probe" /\ pc' # pc) =>
          /\ cache' = cache
          /\ (pc' = "done" /\ Last(events') = "CacheHit") <=> Live(path)
          /\ \A p \in DOMAIN cache :
                cache_get(cache, p, now) = IF Live(p) THEN Some(cache[p].data) ELSE None]_vars

\* the probe passed over an entry that is in the map and has expired
C19_Witness ==
    /\ pc = "policy_check"
    /\ calls = <<"cache.get">>
    /\ path \in DOMAIN cache
    /\ now - cache[path].created_at >= cache[path].ttl

(***************************************************************************)
(* C20: cleanup_expired removes exactly the entries with                   *)
(* now - created_at >= ttl and leaves every other entry in the map with    *)
(* its data, created_at and ttl unchanged; clear removes every entry.      *)
(***************************************************************************)
C20_CleanupRemovesExactlyExpired ==
    [][/\ CleanupExpired =>
             /\ DOMAIN cache' = {p \in DOMAIN cache : Live(p)}
             /\ \A p \in DOMAIN cache' : cache'[p] = cache[p]
       /\ Clear => DOMAIN cache' = {}]_vars

\* past the release TTL and before the packages TTL, the release entry is
\* gone and the two others are kept
C20_Witness ==
    /\ now >= release_ttl
    /\ now < packages_ttl
    /\ DOMAIN cache = DOMAIN FullCache \ {"/debian/dists/bookworm/InRelease"}
    /\ \A p \in DOMAIN cache : cache[p] = FullCache[p]

(***************************************************************************)
(* Vocabulary of the properties about direct calls                         *)
(***************************************************************************)
\* the component `call` was called on the path and returned
Returned(call) == IsSome(returned) /\ returned[1].call = call

(***************************************************************************)
(* C21: determine_ttl classifies by first match: a path that contains      *)
(* InRelease, Release or Release.gpg gets 6 h; else one that contains      *)
(* Packages or Sources gets 12 h; else one that ends with .deb gets one    *)
(* year; any other path gets 1 h.  So a .deb path that contains one of     *)
(* those names does not get the deb TTL.                                   *)
(***************************************************************************)
C21_TtlByFirstMatch ==
    Returned("determine_ttl") =>
        LET ttl == returned[1].result
            release == \E w \in {"InRelease", "Release", "Release.gpg"} : Contains(path, w)
            packages == \E w \in {"Packages", "Sources"} : Contains(path, w)
        IN  /\ release => ttl = 6 * 3600
            /\ (~release /\ packages) => ttl = 12 * 3600
            /\ (~release /\ ~packages /\ EndsWith(path, ".deb")) => ttl = 365 * 24 * 3600
            /\ (~release /\ ~packages /\ ~EndsWith(path, ".deb")) => ttl = 3600

\* a .deb whose name contains Release is kept for 6 h
C21_Witness ==
    /\ Returned("determine_ttl")
    /\ path = "/debian/pool/main/Release-notes_1.deb"
    /\ returned[1].result = release_ttl

(***************************************************************************)
(* Vocabulary of the properties about paths                                *)
(***************************************************************************)
\* the path with its first n characters removed
After(n) == SubSeq(path, n + 1, Len(path))

\* the path lies under /debian/<head>/
Under(head) == StartsWith(path, "/debian/" \o head \o "/")

\* the segments of the path after /debian/dists/ (6 more characters than /debian/)
DistsSegments == Split(After(14), "/")

\* the segments of the path after /debian/, pool included
PoolSegments == Split(After(8), "/")

\* pool/<component>/<letter>/<package>/<file>
FiveSegmentShape ==
    Len(PoolSegments) = 5 /\ \A i \in 1..5 : Len(PoolSegments[i]) > 0

(***************************************************************************)
(* C26: parse_debian_path returns an error for every path that does not    *)
(* start with /debian/, for every path whose remainder starts with neither *)
(* dists/ nor pool/, and for every pool path that is not of the shape      *)
(* pool/<component>/<letter>/<package>/<file>; an accepted pool path       *)
(* yields class Package, the 2nd segment as component, the last segment as *)
(* filename and an empty suite.                                            *)
(***************************************************************************)
C26_ParserAcceptsExactlyTheGrammar ==
    Returned("parse_debian_path") =>
        LET r == returned[1].result IN
        /\ ~StartsWith(path, "/debian/") => ~r.ok
        /\ (~Under("dists") /\ ~Under("pool")) => ~r.ok
        /\ Under("pool") =>
              /\ r.ok <=> FiveSegmentShape
              /\ r.ok => /\ r.path_type = "Package"
                          /\ r.component = Some(PoolSegments[2])
                          /\ r.filename = Some(Last(PoolSegments))
                          /\ Len(r.suite) = 0

(***************************************************************************)
(* C27: if parse_debian_path returns a Release description, its suite is a *)
(* non-empty string.                                                       *)
(***************************************************************************)
C27_ReleaseSuiteNonEmpty ==
    (Returned("parse_debian_path") /\ returned[1].result.ok
        /\ returned[1].result.path_type = "Release") =>
        Len(returned[1].result.suite) > 0

(***************************************************************************)
(* C28: for a dists path with no trailing slash the parser maps the        *)
(* segments after dists/ by count: 1 -> suite; 2 -> suite, filename;       *)
(* 3 -> suite, component, filename; 4 -> suite, component, architecture,   *)
(* filename; 5 or more -> suite, component = 2nd, architecture = 4th,      *)
(* filename = last.                                                        *)
(***************************************************************************)
C28_ReleaseSegmentsByCount ==
    (Returned("parse_debian_path") /\ Under("dists") /\ Len(Last(DistsSegments)) > 0) =>
        LET r == returned[1].result
            seg == DistsSegments
            n == Len(seg)
        IN  /\ r.ok
            /\ r.path_type = "Release"
            /\ r.suite = seg[1]
            /\ r.component = IF n >= 3 THEN Some(seg[2]) ELSE None
            /\ r.architecture = IF n = 4 THEN Some(seg[3])
                                 ELSE IF n >= 5 THEN Some(seg[4]) ELSE None
            /\ r.filename = IF n >= 2 THEN Some(seg[n]) ELSE None

\* five segments: the architecture is the 4th, the filename the last
C28_Witness ==
    /\ Returned("parse_debian_path")
    /\ path = "/debian/dists/bookworm/main/binary-amd64/i386/main"
    /\ returned[1].result.architecture = Some("i386")
    /\ returned[1].result.filename = Some("main")

(***************************************************************************)
(* C29: a dists directory path with a trailing slash after the             *)
(* architecture, /debian/dists/<suite>/<component>/<arch>/, parses to      *)
(* suite, component and architecture with no filename (None).              *)
(***************************************************************************)
C29_TrailingSlashIsDirectory ==
    (/\ Returned("parse_debian_path")
     /\ Under("dists")
     /\ Len(DistsSegments) = 4
     /\ \A i \in 1..3 : Len(DistsSegments[i]) > 0
     /\ Len(DistsSegments[4]) = 0) =>
        LET r == returned[1].result IN
        /\ r.ok
        /\ r.suite = DistsSegments[1]
        /\ r.component = Some(DistsSegments[2])
        /\ r.architecture = Some(DistsSegments[3])
        /\ r.filename = None

(***************************************************************************)
(* C30: for a path parsed as Release, check_path succeeds if and only if   *)
(* the suite is allowed, the component is absent or allowed, and the       *)
(* architecture is absent or both not denied and allowed; an architecture  *)
(* listed as allowed and as denied is rejected.                            *)
(***************************************************************************)
C30_ReleasePolicy ==
    (/\ Returned("check_path")
     /\ parse_debian_path(path).ok
     /\ parse_debian_path(path).path_type = "Release") =>
        LET p == parse_debian_path(path)
            cfg == returned[1].cfg
        IN  returned[1].result.ok <=>
               /\ p.suite \in cfg.allowed_suites
               /\ IsNone(p.component) \/ p.component[1] \in cfg.allowed_components
               /\ \/ IsNone(p.architecture)
                  \/ /\ p.architecture[1] \notin cfg.denied_architectures
                     /\ p.architecture[1] \in cfg.allowed_architectures

\* binary-amd64 is listed as allowed and as denied: the path is rejected
C30_Witness ==
    /\ Returned("check_path")
    /\ path = "/debian/dists/bookworm/main/binary-amd64/main"
    /\ "binary-amd64" \in returned[1].cfg.allowed_architectures
    /\ "binary-amd64" \in returned[1].cfg.denied_architectures
    /\ returned[1].result = Rejected("Architecture is explicitly denied")

(***************************************************************************)
(* Vocabulary of the properties about the signature verifier               *)
(***************************************************************************)

\* The calls of fn that have reached their return with a Result in hand.
DoneCalls(fn) ==
    {id \in DOMAIN verifier_calls : verifier_calls[id].fn = fn /\ verifier_calls[id].pc = "done"}

\* The temporary files whose content was last written by the call id.
FilesOf(id) == {f \in DOMAIN tmp_files : tmp_files[f].writer = id}

(***************************************************************************)
(* C22: the verifier is safe to call concurrently: whatever the            *)
(* interleaving of the write, gpg and remove steps of two verify_inrelease *)
(* calls, a call that returns a verification result returns the outcome of *)
(* verifying its own input bytes.                                          *)
(***************************************************************************)
C22_ConcurrentCallsVerifyOwnInput ==
    \A id \in DoneCalls("verify_inrelease") :
        LET frame == verifier_calls[id]
        IN  frame.result[1].ok => frame.result[1] = verify_inrelease(frame.data, "ok")

(***************************************************************************)
(* C23: when verify_inrelease or verify_release_with_sig returns, with a   *)
(* result or with an error, no temporary file that the call created still  *)
(* exists.                                                                 *)
(***************************************************************************)
C23_TempFilesUnlinkedOnEveryExit ==
    \A id \in DoneCalls("verify_inrelease") \cup DoneCalls("verify_release_with_sig") :
        FilesOf(id) = {}

(***************************************************************************)
(* Vocabulary of the properties about the client IP                        *)
(***************************************************************************)

Blank(s) == \A k \in 1..Len(s) : SubSeq(s, k, k) = " "

\* v is what stands before the first comma of s, without the blanks around it.
FirstValueOf(s, v) ==
    \E i \in 1..(Len(s) + 1), j \in 0..Len(s) :
        /\ SubSeq(s, i, j) = v
        /\ Blank(SubSeq(s, 1, i - 1))
        /\ ~Contains(v, ",")
        /\ Len(v) > 0 => (SubSeq(v, 1, 1) # " " /\ SubSeq(v, Len(v), Len(v)) # " ")
        /\ \E k \in j..Len(s) :
               /\ Blank(SubSeq(s, j + 1, k))
               /\ k = Len(s) \/ SubSeq(s, k + 1, k + 1) = ","

(***************************************************************************)
(* C25: the client IP of a request is the trimmed first comma-separated    *)
(* value of X-Forwarded-For when that header is present, else the value of *)
(* X-Real-IP when present, else the value of X-Forwarded when present, and *)
(* no IP when none is; with no IP the handler neither calls the geo policy *)
(* engine nor emits a GeoIP event.                                         *)
(***************************************************************************)
C25_ClientIpByHeaderOrder ==
    pc # "idle" =>
        /\ IF IsSome(headers.x_forwarded_for)
           THEN IsSome(client_ip) /\ FirstValueOf(headers.x_forwarded_for[1], client_ip[1])
           ELSE IF IsSome(headers.x_real_ip) THEN client_ip = headers.x_real_ip
           ELSE IF IsSome(headers.x_forwarded) THEN client_ip = headers.x_forwarded
           ELSE IsNone(client_ip)
        /\ IsNone(client_ip) => (~Called("geo.check_request") /\ Count(GeoEvents) = 0)

C25_Witness ==
    /\ headers = Headers(Some(" 8.8.8.8 , 203.0.113.1"), Some("10.0.0.1"), Some("198.51.100.7"))
    /\ client_ip = Some("8.8.8.8")
    /\ Called("geo.check_request")
    /\ pc = "done"

(***************************************************************************)
(* Vocabulary of the properties about termination                          *)
(***************************************************************************)

\* a request has been accepted and has no reply yet
InFlight == pc \notin {"idle", "done"}

\* the handler has returned Ok(reply)
Replied == pc = "done" /\ IsSome(response)

\* the reply is the upstream response of this request, passed on with its 2xx status
UpstreamSuccessReply ==
    /\ IsSome(fetched)
    /\ fetched[1].ok
    /\ response[1] = fetched[1].response
    /\ response[1].status \in 200..299

(***************************************************************************)
(* C24: no error escapes the handler: under fair scheduling every accepted *)
(* request ends with an HTTP response, and the status of the response is   *)
(* the 2xx status of the fetched upstream response, or one of 200 (cache), *)
(* 302, 400, 403, 429 and 500.                                             *)
(***************************************************************************)
C24_EveryRequestEndsWithResponse ==
    /\ InFlight ~> Replied
    /\ [](pc = "done" =>
            /\ IsSome(response)
            /\ UpstreamSuccessReply \/ response[1].status \in {200, 302, 400, 403, 429, 500})

C24_Witness ==
    /\ Replied
    /\ UpstreamSuccessReply
    /\ response[1].status = 206
    /\ IsSome(verification)
    /\ ~verification[1].result.ok

(***************************************************************************)
(* C31: a path parsed as Release without a component (a top-level release  *)
(* file or a suite directory) passes check_path exactly when its suite is  *)
(* in allowed_suites, whatever the component and architecture sets hold;   *)
(* and the parser gives no Release description with an architecture and no *)
(* component.                                                              *)
(***************************************************************************)
C31_TopLevelReleaseBySuiteAlone ==
    /\ (Returned("parse_debian_path") /\ returned[1].result.ok
            /\ returned[1].result.path_type = "Release") =>
           (IsSome(returned[1].result.architecture) => IsSome(returned[1].result.component))
    /\ (/\ Returned("check_path")
        /\ parse_debian_path(path).ok
        /\ parse_debian_path(path).path_type = "Release"
        /\ IsNone(parse_debian_path(path).component)) =>
           (returned[1].result.ok <=>
                parse_debian_path(path).suite \in returned[1].cfg.allowed_suites)

\* a top-level file of an allowed suite passes a policy that allows no component
\* and no architecture
C31_Witness ==
    /\ Returned("check_path")
    /\ path = "/debian/dists/bookworm/main"
    /\ returned[1].cfg.allowed_components = {}
    /\ returned[1].cfg.allowed_architectures = {}
    /\ returned[1].result = Allowed

(***************************************************************************)
(* Vocabulary of the properties about pool paths                           *)
(***************************************************************************)

\* check_path has answered for a path that parses as Package
PackageChecked ==
    /\ Returned("check_path")
    /\ parse_debian_path(path).ok
    /\ parse_debian_path(path).path_type = "Package"

\* v is what stands before the first c of s (all of s when it holds no c)
BeforeFirst(s, c, v) ==
    /\ ~Contains(v, c)
    /\ \/ v = s
       \/ Len(v) < Len(s) /\ SubSeq(s, 1, Len(v) + 1) = v \o c

(***************************************************************************)
(* C32: for a path parsed as Package, check_path succeeds if and only if   *)
(* the component is in allowed_components and, when the filename ends with *)
(* .deb, the part of the filename before its first '_' is not in           *)
(* denied_packages; a filename that does not end with .deb is never        *)
(* rejected by the denied-package list.                                    *)
(***************************************************************************)
C32_PackagePolicy ==
    PackageChecked =>
        LET p == parse_debian_path(path)
            cfg == returned[1].cfg
        IN  returned[1].result.ok <=>
               /\ p.component[1] \in cfg.allowed_components
               /\ EndsWith(p.filename[1], ".deb") =>
                      \A name \in cfg.denied_packages : ~BeforeFirst(p.filename[1], "_", name)

\* apt is denied, and a file of the apt directory that is no .deb passes
C32_Witness ==
    /\ PackageChecked
    /\ path = "/debian/pool/main/a/apt/apt_readme.txt"
    /\ returned[1].cfg.denied_packages = {"apt"}
    /\ returned[1].cfg.allowed_components = PolicyConfigDefault.allowed_components
    /\ returned[1].result = Allowed

(***************************************************************************)
(* C33: check_file_size(bytes) fails if and only if the integer quotient   *)
(* bytes / (1024 * 1024) is strictly greater than max_deb_size_mb; with    *)
(* the default limit of 500 every size up to 501 * 2^20 - 1 passes and     *)
(* 501 * 2^20 fails.                                                       *)
(***************************************************************************)
C33_FileSizeLimit ==
    Returned("check_file_size") =>
        LET bytes == returned[1].size_bytes
            limit == returned[1].cfg.max_deb_size_mb
        IN  /\ ~returned[1].result.ok <=> bytes >= (limit + 1) * 1048576
            /\ limit = 500 => (returned[1].result.ok <=> bytes <= 501 * 1048576 - 1)

\* the largest size that passes the default limit
C33_Witness ==
    /\ Returned("check_file_size")
    /\ returned[1].cfg = PolicyConfigDefault
    /\ returned[1].size_bytes = 501 * 1048576 - 1
    /\ returned[1].result = Allowed

(***************************************************************************)
(* C40: the decision of check_path on a pool (Package) path depends only   *)
(* on allowed_components and denied_packages: two configurations that      *)
(* agree on these two give the same decision, whatever their suites and    *)
(* architectures; so a .deb of a denied architecture is admitted under the *)
(* default policy.                                                         *)
(***************************************************************************)
C40_PoolDecisionIgnoresArchitecture ==
    PackageChecked =>
        \A other \in ConfigVariants :
            (/\ other.allowed_components = returned[1].cfg.allowed_components
             /\ other.denied_packages = returned[1].cfg.denied_packages) =>
                check_path(other, path) = returned[1].result

\* i386 is a denied architecture of the default policy
C40_Witness ==
    /\ PackageChecked
    /\ path = "/debian/pool/main/a/apt/apt_2.6.1_i386.deb"
    /\ returned[1].cfg = PolicyConfigDefault
    /\ "i386" \in returned[1].cfg.denied_architectures
    /\ returned[1].result = Allowed

(***************************************************************************)
(* C34: get_risk_score depends only on country_code, is_anonymous_proxy    *)
(* and is_satellite_provider, and equals min(100, 50 + c + 40 for a proxy  *)
(* + 20 for a satellite provider) with c = 30 for CN/RU/KP/IR, 15 for      *)
(* IN/BR/ID/PK, -10 for US/CA/GB/DE/FR/JP/AU and 0 otherwise; the result   *)
(* is within 0..100 and no intermediate sum leaves the range of u8.        *)
(***************************************************************************)
C34_RiskScoreFormula ==
    Returned("get_risk_score") =>
        LET location == returned[1].location
            cc == location.country_code
            c == IF cc \in {"CN", "RU", "KP", "IR"} THEN 30
                 ELSE IF cc \in {"IN", "BR", "ID", "PK"} THEN 15
                 ELSE IF cc \in {"US", "CA", "GB", "DE", "FR", "JP", "AU"} THEN -10
                 ELSE 0
            sum == 50 + c + (IF location.is_anonymous_proxy THEN 40 ELSE 0)
                          + (IF location.is_satellite_provider THEN 20 ELSE 0)
        IN  /\ returned[1].result = Min(100, sum)
            /\ returned[1].result \in 0..100
            /\ 50 + c \in 0..255 /\ sum \in 0..255
            /\ \A other \in Locations :
                   (/\ other.country_code = cc
                    /\ other.is_anonymous_proxy = location.is_anonymous_proxy
                    /\ other.is_satellite_provider = location.is_satellite_provider) =>
                       get_risk_score(other) = returned[1].result

\* the largest sum, 140, is clamped to 100
C34_Witness ==
    /\ Returned("get_risk_score")
    /\ returned[1].location.country_code = "CN"
    /\ returned[1].location.is_anonymous_proxy
    /\ returned[1].location.is_satellite_provider
    /\ returned[1].result = 100

(***************************************************************************)
(* C35: for every UTC hour 0..23 and every timezone of the offset table,   *)
(* is_business_hours is true exactly when the local hour, (utc_hour +      *)
(* offset) reduced into 0..23, is at least 9 and below 17, also when       *)
(* utc_hour + offset is below zero; for an unknown or absent timezone it   *)
(* is false.                                                               *)
(***************************************************************************)
C35_BusinessHoursByLocalHour ==
    Returned("is_business_hours") =>
        LET tz == returned[1].location.timezone
        IN  IF IsSome(tz) /\ tz[1] \in DOMAIN TimezoneOffsets
            THEN LET local_hour == (returned[1].utc_hour + TimezoneOffsets[tz[1]] + 24) % 24
                 IN  returned[1].result <=> (9 <= local_hour /\ local_hour < 17)
            ELSE returned[1].result = FALSE

(***************************************************************************)
(* C36: a Custom condition with a numeric operator (gt, lt, ge, le) is     *)
(* false whenever the field value or the rule's value does not parse as a  *)
(* number; an unknown field name or an unknown operator is false too.      *)
(***************************************************************************)
C36_NumericOperatorsFailFalse ==
    Returned("evaluate_condition") =>
        LET condition == returned[1].condition
        IN  /\ condition.field \notin CustomFields => returned[1].result = FALSE
            /\ condition.operator \notin
                   {"equals", "not_equals", "contains", "starts_with", "ends_with",
                    "gt", "lt", "ge", "le"} => returned[1].result = FALSE
            /\ (/\ condition.field \in CustomFields
                /\ condition.operator \in {"gt", "lt", "ge", "le"}
                /\ \/ IsNone(ParseF64(custom_field_value(condition.field,
                                                         returned[1].location)))
                   \/ IsNone(ParseF64(condition.value))) => returned[1].result = FALSE

(***************************************************************************)
(* C39: under the rules of GeoPolicy::default() no location yields         *)
(* RateLimit: get_country_grouping returns one value of north_america,     *)
(* europe, asia_pacific, south_america, africa, middle_east, other, never  *)
(* high_risk, so every evaluation ends in Deny by the risk rule (score at  *)
(* least 80) or in the default Allow with no rule.                         *)
(***************************************************************************)
C39_DefaultRulesNeverRateLimit ==
    Returned("apply_rules") =>
        LET location == returned[1].location
            result == returned[1].result
        IN  /\ result.action.type # "RateLimit"
            /\ get_country_grouping(location) \in
                   {"north_america", "europe", "asia_pacific", "south_america", "africa",
                    "middle_east", "other"}
            /\ IF get_risk_score(location) >= 80
               THEN result.action = GeoDeny /\ result.rule_name = Some(DefaultRules[1].name)
               ELSE result.action = GeoAllow /\ result.rule_name = None

\* PK is a country of raised risk (65) that the rate limit rule does not reach
C39_Witness ==
    /\ Returned("apply_rules")
    /\ returned[1].location.country_code = "PK"
    /\ ~returned[1].location.is_anonymous_proxy
    /\ ~returned[1].location.is_satellite_provider
    /\ returned[1].result.action = GeoAllow
    /\ returned[1].result.rule_name = None

(***************************************************************************)
(* C38: when the handler verifies a freshly fetched release index, the     *)
(* bytes passed to the signature verifier are the body fetched from        *)
(* upstream for that request, not an empty or different byte string.       *)
(***************************************************************************)
C38_VerifierGetsFetchedBody ==
    (IsSome(verification) /\ IsSome(fetched)) =>
        verification[1].data = fetched[1].response.body.value

(***************************************************************************)
(* C37: parsing is a left inverse of rendering a checksum table: for every *)
(* map from white-space-free file names to digests, the text of a SHA256:  *)
(* header followed by one line "digest size filename" for each entry is    *)
(* parsed by parse_release_hashes into exactly that map; the lines before  *)
(* the header, and the lines after the blank line or the MD5Sum: or SHA1:  *)
(* header that ends the section, add no entry.                             *)
(***************************************************************************)
C37_ParseInvertsRendering ==
    Returned("parse_release_hashes") =>
        LET table == returned[1].table
            result == returned[1].result
        IN  /\ DOMAIN result = {table[i][1] : i \in DOMAIN table}
            /\ \A i \in DOMAIN table : result[table[i][1]] = table[i][2]

\* two entries between entry-shaped lines that are outside the section
C37_Witness ==
    /\ Returned("parse_release_hashes")
    /\ returned[1].preamble = <<"0a0a0a 10 InRelease">>
    /\ returned[1].trailer = <<"MD5Sum:", " 0b0b0b 20 Packages.gz">>
    /\ Len(returned[1].table) = 2
    /\ returned[1].result =
           ("main/binary-amd64/Packages" :> "abc123") @@ ("SHA256:" :> "def456")

====
